---- MODULE Spec2Model ----
(***************************************************************************)
(* Invoice lifecycle of the HR back-office: the endpoints of               *)
(* app/api/v1/endpoints/invoices.py, the lifecycle functions of            *)
(* app/services/invoice/service.py, the aggregator and the renderer's      *)
(* file naming of app/services/invoice_service.py, and the invoices table  *)
(* of app/models/invoice.py.                                               *)
(*                                                                         *)
(* Money is counted in units of 0.01, the scale of the Numeric(15, 2)      *)
(* columns.  Values of a candidate's attribute bag are strings.            *)
(* An optional request field is a sequence: <<>> when omitted (None),      *)
(* <<v>> when supplied.                                                    *)
(***************************************************************************)
EXTENDS Integers, Sequences, FiniteSets, TLC

\* invoices, files: the invoices table and static/invoices
\* candidate_table, column_configs: the candidates and client_column_configs tables
\* calls: the service calls in flight, each with its position and its locals
\* users: the users table
\* locked: the documents of static/invoices that os.remove refuses to remove
VARIABLES invoices, files, candidate_table, column_configs, calls, users, locked

vars == <<invoices, files, candidate_table, column_configs, calls, users, locked>>

----------------------------------------------------------------------------
(* Bounds *)

\* number of primary keys in use at a time.  A key is a uuid4; the model hands
\* out the lowest key no row holds, so a key freed by a delete names a new row
\* later on; no request refers to a row across two steps.
MaxInvoices == 3

\* number of columns in an upserted column configuration
MaxColumns == 2

\* number of candidate rows created
MaxCandidates == 2

----------------------------------------------------------------------------
(* The rows of the other tables, fixed while invoices are worked on *)

CompanyRows == {"co1", "co2"}

\* clients.id -> clients.company_id
ClientRows == [cl \in {"cl1", "cl2"} |-> IF cl = "cl1" THEN "co1" ELSE "co2"]

\* candidates.id -> row; candidate 4 has no row
CandidateRows ==
    [c \in {1, 2, 3} |->
        CASE c = 1 -> [client_id |-> "cl1", company_id |-> "co1",
                       candidate_data |-> [k \in {"candidate_name", "amount"} |->
                            IF k = "amount" THEN "5000" ELSE "J Doe"]]
          [] c = 2 -> [client_id |-> "cl1", company_id |-> "co1",
                       candidate_data |-> [k \in {"candidate_name", "process", "amount"} |->
                            CASE k = "amount" -> "1200"
                              [] k = "process" -> "Voice"
                              [] OTHER -> "A Roe"]]
          [] OTHER -> [client_id |-> "cl2", company_id |-> "co2",
                       candidate_data |-> [k \in {"candidate_name", "amount"} |->
                            IF k = "amount" THEN "700" ELSE "B Poe"]]]

\* client_column_configs: id -> [client_id, column_definitions["columns"]]
\* (width 0 stands for an absent or falsy width)
ColumnConfigRows ==
    [r \in {1} |-> [client_id |-> "cl1", columns |->
        << [field_name |-> "Sr_No", display_label |-> "S.No", width |-> 5, column_width |-> 0],
           [field_name |-> "candidate_name", display_label |-> "Name", width |-> 0, column_width |-> 20],
           [field_name |-> "process", display_label |-> "Process", width |-> 0, column_width |-> 0] >>]]

\* users: id -> row; the superuser scripts/create_superadmin.py creates
UserRows ==
    [u \in {1} |-> [email |-> "root@x", company_id |-> "none", is_superuser |-> TRUE,
                    roles |-> {}]]

InvoiceNumbers == {"INV-1", "INV-2"}

Dates == {1, 2}

\* values of the status argument of generate_invoice
RequestStatuses == {"DRAFT", "GENERATED"}

\* manual totals that reconcile with candidate 3's amount, and totals that
\* reconcile neither with their own tax lines nor with any candidate
TotalsGood ==
    [subtotal |-> 700, cgst_amount |-> 0, sgst_amount |-> 0, igst_amount |-> 0,
     grand_total |-> 700]

TotalsOdd ==
    [subtotal |-> 9000, cgst_amount |-> 810, sgst_amount |-> 810, igst_amount |-> 0,
     grand_total |-> 7777]

\* The attributes service.py reads from a ManualTotals and reads and writes on
\* an Invoice besides those that schemas/invoice.py and models/invoice.py
\* declare.  A read of an attribute that is not declared raises AttributeError,
\* and a keyword of Invoice(...) that names no column raises TypeError.
RateFields == {"cgst_rate", "sgst_rate", "igst_rate"}

\* the fields of schemas.invoice.ManualTotals
ManualTotalsFields ==
    {"subtotal", "cgst_amount", "sgst_amount", "igst_amount", "grand_total"}

\* the columns of models.invoice.Invoice that the operations read or write
InvoiceColumns ==
    {"id", "invoice_number", "invoice_date", "company_id", "client_id", "candidate_ids",
     "subtotal", "cgst_amount", "sgst_amount", "igst_amount", "grand_total", "file_url",
     "status"}

\* the fields of schemas.invoice.InvoiceGenerateRequest
InvoiceGenerateRequestFields ==
    {"client_id", "candidate_ids", "invoice_number", "invoice_date", "manual_totals"}

Request(client_id, candidate_ids, manual_totals, invoice_date) ==
    [client_id |-> client_id, candidate_ids |-> candidate_ids,
     manual_totals |-> manual_totals, invoice_date |-> invoice_date]

\* requests that must not pass: a client without a row, a repeated candidate
\* id, a candidate of another client, a candidate id without a row
BadRequests ==
    { Request("cl0", <<1>>, TotalsOdd, 1), Request("cl1", <<1, 1>>, TotalsOdd, 1),
      Request("cl1", <<1, 3>>, TotalsOdd, 1), Request("cl1", <<4>>, TotalsOdd, 1) }

\* the bodies of POST /invoices/generate, less invoice_number
GenerateRequests ==
    { Request("cl1", <<1>>, TotalsOdd, 1), Request("cl2", <<3>>, TotalsGood, 1) }
    \cup BadRequests

\* the bodies of POST /invoices/preview-draft, less invoice_number
PreviewRequests ==
    { Request("cl1", <<2, 1>>, TotalsOdd, 1), Request("cl2", <<3>>, TotalsGood, 1) }
    \cup BadRequests

\* the invoice numbers previewed
PreviewNumbers == {"INV-1"}

\* the bodies of PATCH /invoices/{id}: every field is optional
UpdateRequests ==
    { [candidate_ids |-> <<>>, manual_totals |-> <<>>, invoice_date |-> <<>>,
       invoice_number |-> <<>>],
      [candidate_ids |-> << <<3>> >>, manual_totals |-> <<TotalsGood>>,
       invoice_date |-> <<2>>, invoice_number |-> <<>>] }
    \cup { [candidate_ids |-> <<>>, manual_totals |-> <<>>, invoice_date |-> <<>>,
            invoice_number |-> <<n>>] : n \in InvoiceNumbers \cup {""} }

\* callers get_current_company_admin lets through: the superuser and the
\* administrators of the two companies
Callers ==
    { [is_superuser |-> TRUE, company_id |-> "none"],
      [is_superuser |-> FALSE, company_id |-> "co1"],
      [is_superuser |-> FALSE, company_id |-> "co2"] }

InvoiceIds == 1 .. MaxInvoices

----------------------------------------------------------------------------
(* Conversions *)

\* str(cid) as stored in invoices.candidate_ids, and UUID(cid) back
UuidStr(c) == <<"uuid", c>>

StrUuid(s) == s[2]

UuidStrs(s) == [i \in 1 .. Len(s) |-> UuidStr(s[i])]

StrUuids(s) == [i \in 1 .. Len(s) |-> StrUuid(s[i])]

\* invoice_date.strftime("%d-%b-%Y")
strftime(d) == IF d = 1 THEN "27-Jan-2024" ELSE "28-Jan-2024"

\* str.lower() on the field names in use
Lower(s) ==
    CASE s = "Sr_No" -> "sr_no"
      [] s = "S.No" -> "s.no"
      [] s = "Serial_No" -> "serial_no"
      [] s = "Admin" -> "admin"
      [] OTHER -> s

Range(s) == {s[i] : i \in 1 .. Len(s)}

Get(data, k, default) == IF k \in DOMAIN data THEN data[k] ELSE default

----------------------------------------------------------------------------
(* Content store: static/invoices, file name -> the snapshot it was rendered from *)

FileName(invoice_number) == <<invoice_number, ".docx">>

FileUrl(filename) == <<"/static/invoices/", filename>>

\* the file name files.py sets aside for a preview; no caller uses it
get_temp_invoice_path(invoice_number) == <<invoice_number, "_preview.docx">>

\* file_url.lstrip("/") resolved below static/invoices
UrlFileName(file_url) == file_url[2]

Remove(fs, name) == [n \in (DOMAIN fs) \ {name} |-> fs[n]]

WriteFile(fs, name, content) ==
    [n \in (DOMAIN fs) \cup {name} |-> IF n = name THEN content ELSE fs[n]]

\* os.remove when the file exists; an exception it raises is caught and the
\* file stays
cleanup_invoice_file(fs, file_url) ==
    IF UrlFileName(file_url) \in DOMAIN fs /\ UrlFileName(file_url) \notin locked
    THEN Remove(fs, UrlFileName(file_url))
    ELSE fs

----------------------------------------------------------------------------
(* Invoice Data Aggregator *)

SerialSynonyms == {"sr_no", "serial_no", "s_no", "s.no"}

\* faulty variant: the match against the synonyms is case-sensitive
NotSerial_case_sensitive(col) == col.field_name \notin SerialSynonyms

\* faulty variant: no configured column is filtered out
NotSerial_keep_all(col) == TRUE

NotSerial(col) == Lower(col.field_name) \notin SerialSynonyms

NormalizeColumn(col) ==
    [col EXCEPT !.width = IF col.width # 0 THEN col.width
                          ELSE IF col.column_width # 0 THEN col.column_width
                          ELSE 10]

FallbackColumns ==
    << [field_name |-> "candidate_name", display_label |-> "Candidate Name", width |-> 20],
       [field_name |-> "amount", display_label |-> "Amount", width |-> 10] >>

\* Query(ClientColumnConfig).filter(client_id == ..).first(): <<>> for None,
\* else the row in a one-element sequence
get_client_column_config(configs, client_id) ==
    IF \E r \in DOMAIN configs : configs[r].client_id = client_id
    THEN <<configs[CHOOSE r \in DOMAIN configs : configs[r].client_id = client_id]>>
    ELSE <<>>

EffectiveColumns(client_id) ==
    LET config == get_client_column_config(column_configs, client_id)
        configured ==
            IF config # <<>> /\ config[1].columns # <<>>
            THEN LET kept == SelectSeq(config[1].columns, NotSerial)
                 IN  [i \in 1 .. Len(kept) |-> NormalizeColumn(kept[i])]
            ELSE <<>>
    IN  IF configured = <<>> THEN FallbackColumns ELSE configured

\* faulty variant: amount is exposed only when it is a configured column
LineItem_configured_only(index, data, columns) ==
    LET fnames == {columns[j].field_name : j \in 1 .. Len(columns)}
    IN  [k \in {"serial_no"} \cup fnames |->
            IF k \in fnames THEN Get(data, k, "") ELSE index]

\* faulty variant: a key the candidate lacks is read without a default
LineItem_no_default(index, data, columns) ==
    LET fnames == {columns[j].field_name : j \in 1 .. Len(columns)}
    IN  [k \in {"serial_no", "amount"} \cup fnames |->
            IF k = "amount" THEN Get(data, "amount", "0")
            ELSE IF k \in fnames THEN Get(data, k, "None")
            ELSE index]

LineItem(index, data, columns) ==
    LET fnames == {columns[j].field_name : j \in 1 .. Len(columns)}
    IN  [k \in {"serial_no", "amount"} \cup fnames |->
            IF k = "amount" THEN Get(data, "amount", "0")
            ELSE IF k \in fnames THEN Get(data, k, "")
            ELSE index]

\* the orders in which "Candidate.id IN (candidate_ids)" may return its rows
CandidatesIn(candidate_ids) ==
    LET found == Range(candidate_ids) \cap DOMAIN candidate_table
    IN  {s \in [1 .. Cardinality(found) -> found] :
            \A i, j \in 1 .. Cardinality(found) : i # j => s[i] # s[j]}

\* faulty variant: the company and the client are not looked up
prepare_invoice_data_unchecked(company_id, client_id, candidates, manual_totals, invoice_number, invoice_date) ==
    LET columns == EffectiveColumns(client_id)
    IN  [out |-> "OK",
         data |-> << [invoice_number |-> invoice_number,
                      invoice_date |-> strftime(invoice_date),
                      company |-> [name |-> company_id],
                      client |-> [name |-> client_id],
                      columns |-> columns,
                      line_items |->
                          [i \in 1 .. Len(candidates) |->
                              LineItem(i, candidate_table[candidates[i]].candidate_data,
                                       columns)],
                      financials |-> manual_totals] >>]

\* candidates is the sequence of candidate ids the query returned
prepare_invoice_data(company_id, client_id, candidates, manual_totals, invoice_number, invoice_date) ==
    IF company_id \notin CompanyRows \/ client_id \notin DOMAIN ClientRows
    THEN [out |-> "NotFound", data |-> <<>>]
    ELSE LET columns == EffectiveColumns(client_id)
         IN  [out |-> "OK",
              data |-> << [invoice_number |-> invoice_number,
                           invoice_date |-> strftime(invoice_date),
                           company |-> [name |-> company_id],
                           client |-> [name |-> client_id],
                           columns |-> columns,
                           line_items |->
                               [i \in 1 .. Len(candidates) |->
                                   LineItem(i, candidate_table[candidates[i]].candidate_data,
                                            columns)],
                           financials |-> manual_totals] >>]

\* Document Renderer: the file it saves and the locator it returns
generate_docx(fs, data) == WriteFile(fs, FileName(data.invoice_number), data)

generate_docx_url(data) == FileUrl(FileName(data.invoice_number))

----------------------------------------------------------------------------
(* The invoices table *)

\* Query(Invoice).filter(company_id == .., invoice_number == ..).first() finds a row
ExistsNumberInCompany(db, company_id, invoice_number) ==
    \E i \in DOMAIN db : /\ db[i].company_id = company_id
                         /\ db[i].invoice_number = invoice_number

\* invoice_number is declared unique=True: the commit of a row numbered
\* invoice_number fails when another row, of any company, carries that number
UniqueViolation(db, id, invoice_number) ==
    \E i \in (DOMAIN db) \ {id} : db[i].invoice_number = invoice_number

Insert(db, row) == [i \in (DOMAIN db) \cup {row.id} |-> IF i = row.id THEN row ELSE db[i]]

Delete(db, id) == [i \in (DOMAIN db) \ {id} |-> db[i]]

----------------------------------------------------------------------------
(* Invoice Lifecycle Manager: app/services/invoice/service.py.              *)
(* Each function yields its outcome, the table and the content store it     *)
(* leaves behind, and the row it returns (<<>> when it returns none).       *)

Result(out, db, fs, ret) == [out |-> out, invoices |-> db, files |-> fs, ret |-> ret]

\* ManualTotals(**keywords): the object keeps the declared fields, a keyword
\* that names no field is ignored
ManualTotals(keywords) == [k \in ManualTotalsFields |-> keywords[k]]

\* Invoice(**keywords): a keyword that names no column raises TypeError and no
\* object is built; row is <<>> then
Invoice(keywords) ==
    IF DOMAIN keywords \subseteq InvoiceColumns
    THEN [out |-> "OK", row |-> <<keywords>>]
    ELSE [out |-> "TypeError", row |-> <<>>]

\* The Invoice(...) call of generate_invoice; id stands for the uuid4 the flush
\* assigns.  The keywords are evaluated before the call: the first read of a
\* rate that manual_totals does not carry raises AttributeError.  The call
\* itself raises TypeError, for invoice_snapshot and the rates are no columns.
NewInvoice(id, company_id, client_id, candidate_ids, manual_totals, invoice_number, invoice_date, status, data, file_url) ==
    IF ~(RateFields \subseteq DOMAIN manual_totals)
    THEN [out |-> "AttributeError", row |-> <<>>]
    ELSE Invoice([id |-> id,
                  invoice_number |-> invoice_number,
                  invoice_date |-> invoice_date,
                  company_id |-> company_id,
                  client_id |-> client_id,
                  candidate_ids |-> UuidStrs(candidate_ids),
                  invoice_snapshot |-> data,
                  subtotal |-> manual_totals.subtotal,
                  cgst_rate |-> manual_totals.cgst_rate,
                  cgst_amount |-> manual_totals.cgst_amount,
                  sgst_rate |-> manual_totals.sgst_rate,
                  sgst_amount |-> manual_totals.sgst_amount,
                  igst_rate |-> manual_totals.igst_rate,
                  igst_amount |-> manual_totals.igst_amount,
                  grand_total |-> manual_totals.grand_total,
                  file_url |-> file_url,
                  status |-> status])

\* The document is rendered before Invoice(...) is called: an error of the call
\* leaves the file behind and stores no row.
generate_invoice(db, fs, id, company_id, client_id, candidate_ids, manual_totals, invoice_number, invoice_date, status, candidates) ==
    IF ExistsNumberInCompany(db, company_id, invoice_number)
    THEN Result("Conflict", db, fs, <<>>)
    ELSE
    LET prep == prepare_invoice_data(company_id, client_id, candidates, manual_totals,
                                     invoice_number, invoice_date)
    IN  IF prep.out # "OK" THEN Result(prep.out, db, fs, <<>>)
        ELSE
        LET data == prep.data[1]
            fs2 == generate_docx(fs, data)
            db_invoice == NewInvoice(id, company_id, client_id, candidate_ids,
                                     manual_totals, invoice_number, invoice_date, status,
                                     data, generate_docx_url(data))
        IN  IF db_invoice.out # "OK"
            THEN Result(db_invoice.out, db, fs2, <<>>)
            ELSE IF UniqueViolation(db, id, invoice_number)
            THEN Result("IntegrityError", db, fs2, <<>>)
            ELSE Result("OK", Insert(db, db_invoice.row[1]), fs2, db_invoice.row)

\* faulty variant: grand_total is computed from the subtotal and the tax amounts
invoice_service_NewInvoice_recomputed(id, company_id, client_id, candidate_ids, manual_totals, invoice_number, invoice_date, file_url) ==
    [id |-> id,
     invoice_number |-> invoice_number,
     invoice_date |-> invoice_date,
     company_id |-> company_id,
     client_id |-> client_id,
     candidate_ids |-> UuidStrs(candidate_ids),
     subtotal |-> manual_totals.subtotal,
     cgst_amount |-> manual_totals.cgst_amount,
     sgst_amount |-> manual_totals.sgst_amount,
     igst_amount |-> manual_totals.igst_amount,
     grand_total |-> manual_totals.subtotal + manual_totals.cgst_amount
                     + manual_totals.sgst_amount + manual_totals.igst_amount,
     file_url |-> file_url,
     status |-> "GENERATED"]

\* the Invoice(...) row generate_invoice of app/services/invoice_service.py builds
invoice_service_NewInvoice(id, company_id, client_id, candidate_ids, manual_totals, invoice_number, invoice_date, file_url) ==
    [id |-> id,
     invoice_number |-> invoice_number,
     invoice_date |-> invoice_date,
     company_id |-> company_id,
     client_id |-> client_id,
     candidate_ids |-> UuidStrs(candidate_ids),
     subtotal |-> manual_totals.subtotal,
     cgst_amount |-> manual_totals.cgst_amount,
     sgst_amount |-> manual_totals.sgst_amount,
     igst_amount |-> manual_totals.igst_amount,
     grand_total |-> manual_totals.grand_total,
     file_url |-> file_url,
     status |-> "GENERATED"]

\* generate_invoice of app/services/invoice_service.py, the function that
\* "from app.services.invoice_service import generate_invoice" binds: no
\* uniqueness query, no status parameter, the row is stored as GENERATED
invoice_service_generate_invoice(db, fs, id, company_id, client_id, candidate_ids, manual_totals, invoice_number, invoice_date, candidates) ==
    LET prep == prepare_invoice_data(company_id, client_id, candidates, manual_totals,
                                     invoice_number, invoice_date)
    IN  IF prep.out # "OK" THEN Result(prep.out, db, fs, <<>>)
        ELSE
        LET data == prep.data[1]
            fs2 == generate_docx(fs, data)
            db_invoice == invoice_service_NewInvoice(id, company_id, client_id,
                              candidate_ids, manual_totals, invoice_number, invoice_date,
                              generate_docx_url(data))
        IN  IF UniqueViolation(db, id, invoice_number)
            THEN Result("IntegrityError", db, fs2, <<>>)
            ELSE Result("OK", Insert(db, db_invoice), fs2, <<db_invoice>>)

\* faulty variant: sending an invoice that is already SENT is an error
send_invoice_strict(db, fs, id) ==
    IF db[id].status # "GENERATED"
    THEN Result("InvalidState", db, fs, <<>>)
    ELSE LET db2 == [db EXCEPT ![id].status = "SENT"]
         IN  Result("OK", db2, fs, <<db2[id]>>)

send_invoice(db, fs, id) ==
    IF db[id].status # "GENERATED"
    THEN IF db[id].status = "SENT"
         THEN Result("OK", db, fs, <<db[id]>>)
         ELSE Result("InvalidState", db, fs, <<>>)
    ELSE LET db2 == [db EXCEPT ![id].status = "SENT"]
         IN  Result("OK", db2, fs, <<db2[id]>>)

\* faulty variant: the status check is missing
finalize_invoice_any(db, fs, id) ==
    LET db2 == [db EXCEPT ![id].status = "GENERATED"]
    IN  Result("OK", db2, fs, <<db2[id]>>)

finalize_invoice(db, fs, id) ==
    IF db[id].status # "DRAFT"
    THEN Result("InvalidState", db, fs, <<>>)
    ELSE LET db2 == [db EXCEPT ![id].status = "GENERATED"]
         IN  Result("OK", db2, fs, <<db2[id]>>)

\* faulty variant: the status check is missing
delete_draft_invoice_any(db, fs, id) ==
    Result("OK", Delete(db, id), cleanup_invoice_file(fs, db[id].file_url), <<>>)

delete_draft_invoice(db, fs, id) ==
    IF db[id].status # "DRAFT"
    THEN Result("InvalidState", db, fs, <<>>)
    ELSE Result("OK", Delete(db, id), cleanup_invoice_file(fs, db[id].file_url), <<>>)

\* the "provided value or existing value" merges of update_invoice
FinalCandidateIds(invoice, candidate_ids) ==
    IF candidate_ids # <<>> THEN candidate_ids[1]
    ELSE StrUuids(invoice.candidate_ids)

\* "invoice_number if invoice_number else ...": the empty string counts as
\* not supplied
FinalInvoiceNumber(invoice, invoice_number) ==
    IF invoice_number # <<>> /\ invoice_number[1] # "" THEN invoice_number[1]
    ELSE invoice.invoice_number

FinalInvoiceDate(invoice, invoice_date) ==
    IF invoice_date # <<>> THEN invoice_date[1] ELSE invoice.invoice_date

\* "rate or 0.0": the rate itself, and 0 for a rate that is None, written <<>>.
\* A number and <<>> are told apart by their printed forms.
Or0(rate) == IF ToString(rate) = ToString(<<>>) THEN 0 ELSE rate

\* The totals rebuilt from the row read invoice.cgst_rate, invoice.sgst_rate
\* and invoice.igst_rate and hand them to ManualTotals(...), which keeps the
\* five amounts.
FinalManualTotals(invoice, manual_totals) ==
    IF manual_totals # <<>> THEN manual_totals[1]
    ELSE ManualTotals([subtotal |-> invoice.subtotal,
                       cgst_rate |-> Or0(invoice.cgst_rate),
                       cgst_amount |-> invoice.cgst_amount,
                       sgst_rate |-> Or0(invoice.sgst_rate),
                       sgst_amount |-> invoice.sgst_amount,
                       igst_rate |-> Or0(invoice.igst_rate),
                       igst_amount |-> invoice.igst_amount,
                       grand_total |-> invoice.grand_total])

\* obj.name = value for each name of attrs
SetAttrs(obj, attrs) ==
    [k \in (DOMAIN obj) \cup (DOMAIN attrs) |-> IF k \in DOMAIN attrs THEN attrs[k] ELSE obj[k]]

\* db.commit() writes the columns of the object
Columns(obj) == [k \in (DOMAIN obj) \cap InvoiceColumns |-> obj[k]]

\* update_invoice past its status check.  Rebuilding the totals from the row
\* reads the rates of the Invoice, storing the totals reads the rates of the
\* totals: a rate that is not there raises AttributeError, after the old
\* document was removed and, in the second case, the new one rendered; nothing
\* is committed.  The commit writes the columns; the object returned keeps
\* every attribute assigned.
update_invoice_draft(db, fs, id, candidate_ids, manual_totals, invoice_date, invoice_number, candidates) ==
    LET invoice == db[id] IN
    IF /\ invoice_number # <<>> /\ invoice_number[1] # ""
            /\ invoice_number[1] # invoice.invoice_number
            /\ ExistsNumberInCompany(db, invoice.company_id, invoice_number[1])
    THEN Result("Conflict", db, fs, <<>>)
    ELSE
    LET fs1 == cleanup_invoice_file(fs, invoice.file_url) IN
    IF manual_totals = <<>> /\ ~(RateFields \subseteq DOMAIN invoice)
    THEN Result("AttributeError", db, fs1, <<>>)
    ELSE
    LET final_candidate_ids == FinalCandidateIds(invoice, candidate_ids)
        final_invoice_number == FinalInvoiceNumber(invoice, invoice_number)
        final_invoice_date == FinalInvoiceDate(invoice, invoice_date)
        final_manual_totals == FinalManualTotals(invoice, manual_totals)
        prep == prepare_invoice_data(invoice.company_id, invoice.client_id, candidates,
                                     final_manual_totals, final_invoice_number,
                                     final_invoice_date)
    IN  IF prep.out # "OK" THEN Result(prep.out, db, fs1, <<>>)
        ELSE
        LET data == prep.data[1]
            fs2 == generate_docx(fs1, data)
            updated ==
                SetAttrs(invoice,
                    [invoice_number |-> final_invoice_number,
                     invoice_date |-> final_invoice_date,
                     candidate_ids |-> UuidStrs(final_candidate_ids),
                     invoice_snapshot |-> data,
                     file_url |-> generate_docx_url(data),
                     subtotal |-> final_manual_totals.subtotal,
                     cgst_rate |-> final_manual_totals.cgst_rate,
                     cgst_amount |-> final_manual_totals.cgst_amount,
                     sgst_rate |-> final_manual_totals.sgst_rate,
                     sgst_amount |-> final_manual_totals.sgst_amount,
                     igst_rate |-> final_manual_totals.igst_rate,
                     igst_amount |-> final_manual_totals.igst_amount,
                     grand_total |-> final_manual_totals.grand_total])
        IN  IF ~(RateFields \subseteq DOMAIN final_manual_totals)
            THEN Result("AttributeError", db, fs2, <<>>)
            ELSE IF UniqueViolation(db, id, final_invoice_number)
            THEN Result("IntegrityError", db, fs2, <<>>)
            ELSE Result("OK", [db EXCEPT ![id] = Columns(updated)], fs2, <<updated>>)

update_invoice(db, fs, id, candidate_ids, manual_totals, invoice_date, invoice_number, candidates) ==
    IF db[id].status # "DRAFT" THEN Result("InvalidState", db, fs, <<>>)
    ELSE update_invoice_draft(db, fs, id, candidate_ids, manual_totals, invoice_date,
                              invoice_number, candidates)

\* faulty variant: the preview is saved as an invoice
preview_draft_invoice_saved(db, fs, company_id, client_id, candidate_ids, manual_totals, invoice_number, invoice_date, candidates) ==
    IF DOMAIN db = InvoiceIds
    THEN Result("OK", db, fs, <<>>)
    ELSE invoice_service_generate_invoice(db, fs,
             CHOOSE i \in InvoiceIds : i \notin DOMAIN db, company_id, client_id,
             candidate_ids, manual_totals, invoice_number, invoice_date, candidates)

preview_draft_invoice(db, fs, company_id, client_id, candidate_ids, manual_totals, invoice_number, invoice_date, candidates) ==
    LET prep == prepare_invoice_data(company_id, client_id, candidates, manual_totals,
                                     invoice_number, invoice_date)
    IN  IF prep.out # "OK" THEN Result(prep.out, db, fs, <<>>)
        ELSE Result("OK", db, generate_docx(fs, prep.data[1]), prep.data)

----------------------------------------------------------------------------
(* Endpoints: app/api/v1/endpoints/invoices.py *)

\* faulty variant: the security check is missing
InvoiceFound_any_tenant(caller, id) == id \in DOMAIN invoices

\* "fetch invoice" and "security check" of the endpoints that take an invoice id
InvoiceFound(caller, id) ==
    /\ id \in DOMAIN invoices
    /\ caller.is_superuser \/ invoices[id].company_id = caller.company_id

\* "validate client" and the tenant check of create_invoice and preview_draft
ClientFound(caller, client_id) ==
    /\ client_id \in DOMAIN ClientRows
    /\ caller.is_superuser \/ ClientRows[client_id] = caller.company_id

RequestCompany(caller, client_id) ==
    IF caller.is_superuser THEN ClientRows[client_id] ELSE caller.company_id

\* the rows of the "validate candidates" query
OwnedCandidates(candidate_ids, client_id, company_id) ==
    {c \in Range(candidate_ids) \cap DOMAIN candidate_table :
        /\ candidate_table[c].client_id = client_id
        /\ candidate_table[c].company_id = company_id}

CandidatesValid(candidate_ids, client_id, company_id) ==
    Cardinality(OwnedCandidates(candidate_ids, client_id, company_id)) = Len(candidate_ids)

Unchanged(out) == Result(out, invoices, files, <<>>)

\* Invoice.id default=uuid.uuid4: any key no row holds, in any order with
\* the keys in use
NewIds == InvoiceIds \ DOMAIN invoices

\* the first of them: it stands for any of them where no operation compares
\* keys other than for equality
FirstNewIds == {i \in NewIds : \A j \in NewIds : i <= j}

\* Each endpoint yields the Result of answering the request in the current
\* state; candidates is the order in which the aggregator's query returns rows.

get_invoice(caller, id) ==
    IF InvoiceFound(caller, id)
    THEN Result("OK", invoices, files, <<invoices[id]>>)
    ELSE Unchanged("NotFound")

preview_draft(caller, client_id, candidate_ids, manual_totals, invoice_number, invoice_date, candidates) ==
    IF ~ClientFound(caller, client_id) THEN Unchanged("NotFound")
    ELSE IF ~CandidatesValid(candidate_ids, client_id, RequestCompany(caller, client_id))
    THEN Unchanged("ValidationError")
    ELSE preview_draft_invoice(invoices, files, RequestCompany(caller, client_id),
                               client_id, candidate_ids, manual_totals, invoice_number,
                               invoice_date, candidates)

\* The arguments of the call are evaluated first: reading request.status, which
\* InvoiceGenerateRequest does not declare, raises AttributeError.  The function
\* called is generate_invoice of app/services/invoice_service.py, which takes no
\* status: given the keyword it raises TypeError.
create_invoice(caller, client_id, candidate_ids, manual_totals, invoice_number, invoice_date, candidates) ==
    IF ~ClientFound(caller, client_id) THEN Unchanged("NotFound")
    ELSE IF ~CandidatesValid(candidate_ids, client_id, RequestCompany(caller, client_id))
    THEN Unchanged("ValidationError")
    ELSE IF "status" \notin InvoiceGenerateRequestFields
    THEN Unchanged("AttributeError")
    ELSE Unchanged("TypeError")

update_draft_invoice(caller, id, candidate_ids, manual_totals, invoice_date, invoice_number, candidates) ==
    IF ~InvoiceFound(caller, id) THEN Unchanged("NotFound")
    ELSE IF invoices[id].status # "DRAFT" THEN Unchanged("InvalidState")
    ELSE update_invoice(invoices, files, id, candidate_ids, manual_totals, invoice_date,
                        invoice_number, candidates)

finalize_draft_invoice(caller, id) ==
    IF ~InvoiceFound(caller, id) THEN Unchanged("NotFound")
    ELSE IF invoices[id].status # "DRAFT" THEN Unchanged("InvalidState")
    ELSE finalize_invoice(invoices, files, id)

send_invoice_endpoint(caller, id) ==
    IF ~InvoiceFound(caller, id) THEN Unchanged("NotFound")
    ELSE IF invoices[id].status # "GENERATED"
    THEN IF invoices[id].status = "SENT"
         THEN Result("OK", invoices, files, <<invoices[id]>>)
         ELSE Unchanged("InvalidState")
    ELSE send_invoice(invoices, files, id)

delete_draft(caller, id) ==
    IF ~InvoiceFound(caller, id) THEN Unchanged("NotFound")
    ELSE IF invoices[id].status # "DRAFT" THEN Unchanged("InvalidState")
    ELSE delete_draft_invoice(invoices, files, id)

----------------------------------------------------------------------------
(* One request is answered per step: the table and the content store      *)
(* become those of the request's Result.                                   *)

Respond(r) ==
    /\ invoices' = r.invoices
    /\ files' = r.files
    /\ UNCHANGED <<candidate_table, column_configs, calls, users, locked>>

\* the row orders the candidate query of an update may return
UpdateCandidates(id, candidate_ids) ==
    IF id \in DOMAIN invoices
    THEN CandidatesIn(FinalCandidateIds(invoices[id], candidate_ids))
    ELSE {<<>>}

\* one request of each endpoint, from any of the callers given
GetInvoiceBy(callers) ==
    \E caller \in callers, id \in InvoiceIds :
        Respond(get_invoice(caller, id))

PreviewDraftBy(callers) ==
    \E caller \in callers, p \in PreviewRequests, invoice_number \in PreviewNumbers :
        \E candidates \in CandidatesIn(p.candidate_ids) :
            Respond(preview_draft(caller, p.client_id, p.candidate_ids, p.manual_totals,
                                  invoice_number, p.invoice_date, candidates))

CreateInvoiceBy(callers) ==
    \E caller \in callers, p \in GenerateRequests, invoice_number \in InvoiceNumbers :
        \E candidates \in CandidatesIn(p.candidate_ids) :
            Respond(create_invoice(caller, p.client_id, p.candidate_ids, p.manual_totals,
                                   invoice_number, p.invoice_date, candidates))

\* The client, candidates, totals and date of the calls of the two
\* generate_invoice functions: those that pass the checks create_invoice makes
\* before its call.  The company is the client's.
ServiceRequests ==
    { Request("cl1", <<1>>, TotalsOdd, 1), Request("cl1", <<2, 1>>, TotalsGood, 2),
      Request("cl2", <<3>>, TotalsGood, 1) }

\* a call of generate_invoice of app/services/invoice/service.py
GenerateInvoiceFor(requests) ==
    \E p \in requests, invoice_number \in InvoiceNumbers, status \in RequestStatuses :
        \E candidates \in CandidatesIn(p.candidate_ids), id \in FirstNewIds :
            Respond(generate_invoice(invoices, files, id, ClientRows[p.client_id],
                                     p.client_id, p.candidate_ids, p.manual_totals,
                                     invoice_number, p.invoice_date, status, candidates))

\* a call of generate_invoice of app/services/invoice_service.py
InvoiceServiceGenerateInvoiceWith(requests, numbers, ids) ==
    \E p \in requests, invoice_number \in numbers :
        \E candidates \in CandidatesIn(p.candidate_ids), id \in ids :
            Respond(invoice_service_generate_invoice(invoices, files, id,
                        ClientRows[p.client_id], p.client_id, p.candidate_ids,
                        p.manual_totals, invoice_number, p.invoice_date, candidates))

InvoiceServiceGenerateInvoiceFor(requests) ==
    InvoiceServiceGenerateInvoiceWith(requests, InvoiceNumbers, FirstNewIds)

UpdateDraftInvoiceBy(callers) ==
    \E caller \in callers, id \in InvoiceIds, u \in UpdateRequests :
        \E candidates \in UpdateCandidates(id, u.candidate_ids) :
            Respond(update_draft_invoice(caller, id, u.candidate_ids, u.manual_totals,
                                            u.invoice_date, u.invoice_number, candidates))

FinalizeDraftInvoiceBy(callers) ==
    \E caller \in callers, id \in InvoiceIds :
        Respond(finalize_draft_invoice(caller, id))

SendInvoiceBy(callers) ==
    \E caller \in callers, id \in InvoiceIds :
        Respond(send_invoice_endpoint(caller, id))

DeleteDraftBy(callers) ==
    \E caller \in callers, id \in InvoiceIds :
        Respond(delete_draft(caller, id))

GetInvoice == GetInvoiceBy(Callers)

PreviewDraft == PreviewDraftBy(Callers)

CreateInvoice == CreateInvoiceBy(Callers)

GenerateInvoice == GenerateInvoiceFor(ServiceRequests)

InvoiceServiceGenerateInvoice == InvoiceServiceGenerateInvoiceFor(ServiceRequests)

UpdateDraftInvoice == UpdateDraftInvoiceBy(Callers)

FinalizeDraftInvoice == FinalizeDraftInvoiceBy(Callers)

SendInvoice == SendInvoiceBy(Callers)

DeleteDraft == DeleteDraftBy(Callers)

\* no call in flight
NoCalls == [p \in {} |-> p]

Init ==
    /\ invoices = [i \in {} |-> i]
    /\ files = [n \in {} |-> n]
    /\ candidate_table = CandidateRows
    /\ column_configs = ColumnConfigRows
    /\ users = UserRows
    /\ locked = {}
    /\ calls = NoCalls

Next ==
    \/ GetInvoice
    \/ PreviewDraft
    \/ CreateInvoice
    \/ GenerateInvoice
    \/ InvoiceServiceGenerateInvoice
    \/ UpdateDraftInvoice
    \/ FinalizeDraftInvoice
    \/ SendInvoice
    \/ DeleteDraft

Spec == Init /\ [][Next]_vars

TypeOK ==
    /\ DOMAIN invoices \subseteq InvoiceIds
    /\ \A i \in DOMAIN invoices : invoices[i].id = i /\ invoices[i].status \in {"DRAFT", "GENERATED", "SENT"}

----------------------------------------------------------------------------
(* The operations on the invoices of one company *)

\* the administrators of one company
Admins == {[is_superuser |-> FALSE, company_id |-> "co1"]}

OneCompanyRequests == {p \in ServiceRequests : ClientRows[p.client_id] = "co1"}

NextOneCompany ==
    \/ GenerateInvoiceFor(OneCompanyRequests)
    \/ InvoiceServiceGenerateInvoiceFor(OneCompanyRequests)
    \/ UpdateDraftInvoiceBy(Admins)
    \/ FinalizeDraftInvoiceBy(Admins)
    \/ SendInvoiceBy(Admins)
    \/ DeleteDraftBy(Admins)

SpecOneCompany == Init /\ [][NextOneCompany]_vars

----------------------------------------------------------------------------
(* Documents that cleanup_invoice_file cannot delete: the file was removed   *)
(* from static/invoices by someone else, or os.remove raises for it.  Such a *)
(* file can still be written by the renderer.                                *)

FileGone ==
    \E name \in DOMAIN files :
        /\ files' = Remove(files, name)
        /\ locked' = locked \ {name}
        /\ UNCHANGED <<invoices, candidate_table, column_configs, calls, users>>

FileLocked ==
    \E name \in (DOMAIN files) \ locked :
        /\ locked' = locked \cup {name}
        /\ UNCHANGED <<invoices, files, candidate_table, column_configs, calls, users>>

NextCleanup ==
    \/ InvoiceServiceGenerateInvoiceFor(OneCompanyRequests)
    \/ UpdateDraftInvoiceBy(Admins)
    \/ DeleteDraftBy(Admins)
    \/ FileGone
    \/ FileLocked

SpecCleanup == Init /\ [][NextCleanup]_vars

----------------------------------------------------------------------------
(* Two generate_invoice calls in progress at once, each in its own request   *)
(* and session.  A call does its uniqueness query, then renders, then        *)
(* inserts and commits; the steps of the two calls interleave freely.        *)

Procs == {1, 2}

\* the generate calls of one company that may run side by side
RaceRequests ==
    { Request("cl1", <<1>>, TotalsOdd, 1), Request("cl1", <<2, 1>>, TotalsGood, 1) }

\* a call before its first step; the row it will insert gets a key of its own
GenerateCall(p, r, invoice_number, status, candidates) ==
    [pc |-> "check", id |-> p, company_id |-> ClientRows[r.client_id],
     client_id |-> r.client_id, candidate_ids |-> r.candidate_ids,
     manual_totals |-> r.manual_totals, invoice_number |-> invoice_number,
     invoice_date |-> r.invoice_date, status |-> status, candidates |-> candidates,
     out |-> "running"]

GenerateCalls(p) ==
    { GenerateCall(p, r, n, s, c) :
        r \in RaceRequests, n \in InvoiceNumbers, s \in RequestStatuses,
        c \in UNION {CandidatesIn(q.candidate_ids) : q \in RaceRequests} }

InitGenerateRace ==
    /\ invoices = [i \in {} |-> i]
    /\ files = [n \in {} |-> n]
    /\ candidate_table = CandidateRows
    /\ column_configs = ColumnConfigRows
    /\ users = UserRows
    /\ locked = {}
    /\ calls \in [Procs -> UNION {GenerateCalls(p) : p \in Procs}]
    /\ \A p \in Procs :
           /\ calls[p].id = p
           /\ calls[p].candidates \in CandidatesIn(calls[p].candidate_ids)

\* service.py 26-33: the uniqueness query and the ValueError it leads to
GenerateCheck(p) ==
    /\ calls[p].pc = "check"
    /\ calls' = [calls EXCEPT ![p] =
                    IF ExistsNumberInCompany(invoices, @.company_id, @.invoice_number)
                    THEN [@ EXCEPT !.pc = "done", !.out = "Conflict"]
                    ELSE [@ EXCEPT !.pc = "render"]]
    /\ UNCHANGED <<invoices, files, candidate_table, column_configs, users, locked>>

\* service.py 35-43: prepare_invoice_data and generate_docx
GenerateRender(p) ==
    LET c == calls[p]
        prep == prepare_invoice_data(c.company_id, c.client_id, c.candidates,
                                     c.manual_totals, c.invoice_number, c.invoice_date)
    IN  /\ c.pc = "render"
        /\ IF prep.out # "OK"
           THEN /\ calls' = [calls EXCEPT ![p].pc = "done", ![p].out = prep.out]
                /\ UNCHANGED files
           ELSE /\ calls' = [calls EXCEPT ![p].pc = "insert"]
                /\ files' = generate_docx(files, prep.data[1])
        /\ UNCHANGED <<invoices, candidate_table, column_configs, users, locked>>

\* service.py 46-72: Invoice(...), db.add, db.commit
GenerateInsert(p) ==
    LET c == calls[p]
        data == prepare_invoice_data(c.company_id, c.client_id, c.candidates,
                                     c.manual_totals, c.invoice_number,
                                     c.invoice_date).data[1]
        db_invoice == NewInvoice(c.id, c.company_id, c.client_id, c.candidate_ids,
                                 c.manual_totals, c.invoice_number, c.invoice_date,
                                 c.status, data, generate_docx_url(data))
    IN  /\ c.pc = "insert"
        /\ IF db_invoice.out # "OK"
           THEN /\ calls' = [calls EXCEPT ![p].pc = "done", ![p].out = db_invoice.out]
                /\ UNCHANGED invoices
           ELSE IF UniqueViolation(invoices, c.id, c.invoice_number)
           THEN /\ calls' = [calls EXCEPT ![p].pc = "done", ![p].out = "IntegrityError"]
                /\ UNCHANGED invoices
           ELSE /\ calls' = [calls EXCEPT ![p].pc = "done", ![p].out = "OK"]
                /\ invoices' = Insert(invoices, db_invoice.row[1])
        /\ UNCHANGED <<files, candidate_table, column_configs, users, locked>>

NextGenerateRace ==
    \E p \in Procs :
        \/ GenerateCheck(p)
        \/ GenerateRender(p)
        \/ GenerateInsert(p)

SpecGenerateRace == InitGenerateRace /\ [][NextGenerateRace]_vars

----------------------------------------------------------------------------
(* Column configurations: app/services/client_service.py.  A configuration   *)
(* is upserted as a whole; previews show what the aggregator makes of it.     *)

\* ColumnDefinition.model_dump(): no width key (0), column_width in tenths
ColumnPool ==
    { [field_name |-> "Sr_No", display_label |-> "S.No", width |-> 0, column_width |-> 5],
      [field_name |-> "serial_no", display_label |-> "Serial", width |-> 0, column_width |-> 10],
      [field_name |-> "candidate_name", display_label |-> "Name", width |-> 0, column_width |-> 20],
      [field_name |-> "amount", display_label |-> "Amount", width |-> 0, column_width |-> 10],
      [field_name |-> "process", display_label |-> "Process", width |-> 0, column_width |-> 10] }

\* ClientColumnConfigCreate.columns: the lists of at most MaxColumns columns
ColumnLists == UNION {[1 .. n -> ColumnPool] : n \in 0 .. MaxColumns}

\* the clients whose configuration is edited
ConfiguredClients == {"cl1"}

\* ClientColumnConfig.id default=uuid.uuid4: a key no row holds
NewConfigId(configs) == Cardinality(DOMAIN configs) + 1

\* faulty variant: the new columns are appended to the stored ones
upsert_client_column_config_merge(configs, client_id, columns) ==
    IF \E r \in DOMAIN configs : configs[r].client_id = client_id
    THEN LET r == CHOOSE r \in DOMAIN configs : configs[r].client_id = client_id
         IN  [configs EXCEPT ![r].columns = configs[r].columns \o columns]
    ELSE [r \in (DOMAIN configs) \cup {NewConfigId(configs)} |->
             IF r \in DOMAIN configs THEN configs[r]
             ELSE [client_id |-> client_id, columns |-> columns]]

\* the table after the commit; the row returned is the client's
upsert_client_column_config(configs, client_id, columns) ==
    IF get_client_column_config(configs, client_id) # <<>>
    THEN LET r == CHOOSE r \in DOMAIN configs : configs[r].client_id = client_id
         IN  [configs EXCEPT ![r].columns = columns]
    ELSE [r \in (DOMAIN configs) \cup {NewConfigId(configs)} |->
             IF r \in DOMAIN configs THEN configs[r]
             ELSE [client_id |-> client_id, columns |-> columns]]

UpsertColumnConfigBy(clients, lists) ==
    \E client_id \in clients, columns \in lists :
        /\ column_configs' = upsert_client_column_config(column_configs, client_id, columns)
        /\ UNCHANGED <<invoices, files, candidate_table, calls, users, locked>>

UpsertColumnConfig == UpsertColumnConfigBy(ConfiguredClients, ColumnLists)

\* no client has a configuration yet
InitColumns ==
    /\ invoices = [i \in {} |-> i]
    /\ files = [n \in {} |-> n]
    /\ candidate_table = CandidateRows
    /\ column_configs = [r \in {} |-> <<>>]
    /\ users = UserRows
    /\ locked = {}
    /\ calls = NoCalls

NextColumns ==
    \/ UpsertColumnConfig
    \/ PreviewDraftBy(Admins)

SpecColumns == InitColumns /\ [][NextColumns]_vars

\* the configurations of both clients are edited, nothing else happens
NextConfigs ==
    \/ UpsertColumnConfigBy({"cl1"}, ColumnLists)
    \/ UpsertColumnConfigBy({"cl2"}, {columns \in ColumnLists : Len(columns) <= 1})

SpecConfigs == InitColumns /\ [][NextConfigs]_vars

----------------------------------------------------------------------------
(* Listing: list_invoices of endpoints/invoices.py, list_clients of          *)
(* endpoints/clients.py with get_clients of client_service.py.  An optional  *)
(* query parameter is <<>> when absent and <<v>> when given.  The page asked *)
(* for is the first and page_size exceeds the number of rows, so the page is *)
(* the whole result; its order is not modelled.                              *)

\* clients.id -> clients.is_active
ClientActive == [cl \in DOMAIN ClientRows |-> cl = "cl1"]

\* client_name ILIKE %search%: the clients are named after their ids
NameContains(cl, search) ==
    CASE search = "cl" -> TRUE
      [] search = "1" -> cl = "cl1"
      [] OTHER -> FALSE

Optional(S) == {<<>>} \cup {<<v>> : v \in S}

InvoiceFilters ==
    [status : Optional({"DRAFT", "SENT"}), client_id : Optional({"cl1"}),
     from_date : Optional({2}), to_date : Optional({1})]

ClientFilters ==
    [search : Optional({"cl", "1"}), is_active : Optional({TRUE}),
     company_id : Optional({"co1", "co2"})]

\* the ids of the rows list_invoices returns
list_invoices(caller, f) ==
    {i \in DOMAIN invoices :
        /\ invoices[i].company_id = caller.company_id
        /\ f.status # <<>> => invoices[i].status = f.status[1]
        /\ f.client_id # <<>> => invoices[i].client_id = f.client_id[1]
        /\ f.from_date # <<>> => invoices[i].invoice_date >= f.from_date[1]
        /\ f.to_date # <<>> => invoices[i].invoice_date <= f.to_date[1]}

\* the ids of the rows get_clients returns; company_id is <<>> for None
get_clients(company_id, search, is_active) ==
    {cl \in DOMAIN ClientRows :
        /\ company_id # <<>> => ClientRows[cl] = company_id[1]
        /\ is_active # <<>> => ClientActive[cl] = is_active[1]
        /\ search # <<>> => NameContains(cl, search[1])}

list_clients(caller, f) ==
    LET target_company_id ==
            IF caller.is_superuser THEN f.company_id ELSE <<caller.company_id>>
    IN  get_clients(target_company_id, f.search, f.is_active)

ListInvoices ==
    \E caller \in Callers, f \in InvoiceFilters :
        Respond(Result("OK", invoices, files, <<list_invoices(caller, f)>>))

ListClients ==
    \E caller \in Callers, f \in ClientFilters :
        Respond(Result("OK", invoices, files, <<list_clients(caller, f)>>))

NextListing ==
    \/ Next
    \/ ListInvoices
    \/ ListClients

SpecListing == Init /\ [][NextListing]_vars

----------------------------------------------------------------------------
(* Candidates: the request schemas of app/schemas/candidate.py and          *)
(* create_candidate, update_candidate and delete_candidate of               *)
(* app/services/candidate_service.py.                                       *)
(* A value of candidate_data is written as its JSON text; "null" is None.   *)

\* float(v) returns; it raises ValueError for "abc" and TypeError for None.
float_ok(v) ==
    CASE v = "5000" -> TRUE
      [] v = "12.5" -> TRUE
      [] v = "700" -> TRUE
      [] v = "1200" -> TRUE
      [] OTHER -> FALSE

EmptyDict == [k \in {} |-> ""]

\* candidate_data of the bodies of create: empty, without amount, with an
\* amount that is not a number, with a numeric amount
CreatePayloads ==
    { EmptyDict,
      [k \in {"candidate_name"} |-> "J Doe"],
      [k \in {"amount"} |-> "abc"],
      [k \in {"amount", "candidate_name"} |-> IF k = "amount" THEN "null" ELSE "J Doe"],
      [k \in {"amount", "candidate_name"} |-> IF k = "amount" THEN "5000" ELSE "J Doe"],
      [k \in {"amount"} |-> "12.5"] }

\* candidate_data of the bodies of update
UpdatePayloads ==
    { EmptyDict,
      [k \in {"process"} |-> "Voice"],
      [k \in {"amount"} |-> "12.5"],
      [k \in {"amount"} |-> "abc"],
      [k \in {"amount", "process"} |-> IF k = "amount" THEN "null" ELSE "Voice"] }

CandidateIds == 1 .. MaxCandidates

\* CandidateBase.validate_amount_presence
validate_amount_presence(v) ==
    IF DOMAIN v = {} THEN FALSE
    ELSE IF "amount" \notin DOMAIN v THEN FALSE
    ELSE float_ok(v["amount"])

\* faulty variant: the amount of an update is not checked
validate_amount_if_present_skipped(v) == TRUE

\* CandidateUpdate.validate_amount_if_present; v is <<>> for None
validate_amount_if_present(v) ==
    IF v # <<>> /\ DOMAIN v[1] # {} /\ "amount" \in DOMAIN v[1]
    THEN float_ok(v[1]["amount"])
    ELSE TRUE

\* dict.update
DictUpdate(current, new) ==
    [k \in (DOMAIN current) \cup (DOMAIN new) |->
        IF k \in DOMAIN new THEN new[k] ELSE current[k]]

create_candidate(table, id, candidate_data, is_active, client_id, company_id) ==
    [c \in (DOMAIN table) \cup {id} |->
        IF c = id
        THEN [client_id |-> client_id, company_id |-> company_id,
              candidate_data |-> candidate_data, is_active |-> is_active]
        ELSE table[c]]

\* faulty variant: the stored bag is replaced by the payload
update_candidate_replace(table, candidate_id, candidate_data, is_active, company_id) ==
    IF candidate_id \notin DOMAIN table \/ table[candidate_id].company_id # company_id
    THEN table
    ELSE LET row == table[candidate_id]
             active == IF is_active # <<>> THEN is_active[1] ELSE row.is_active
             data == IF candidate_data # <<>> /\ DOMAIN candidate_data[1] # {}
                     THEN candidate_data[1]
                     ELSE row.candidate_data
         IN  [table EXCEPT ![candidate_id] =
                 [row EXCEPT !.is_active = active, !.candidate_data = data]]

\* candidate_data and is_active are <<>> for None
update_candidate(table, candidate_id, candidate_data, is_active, company_id) ==
    IF candidate_id \notin DOMAIN table \/ table[candidate_id].company_id # company_id
    THEN table
    ELSE LET row == table[candidate_id]
             active == IF is_active # <<>> THEN is_active[1] ELSE row.is_active
             data == IF candidate_data # <<>> /\ DOMAIN candidate_data[1] # {}
                     THEN DictUpdate(row.candidate_data, candidate_data[1])
                     ELSE row.candidate_data
         IN  [table EXCEPT ![candidate_id] =
                 [row EXCEPT !.is_active = active, !.candidate_data = data]]

\* the row with the id and the company is deleted; the table is unchanged
\* when there is none (the call returns False)
delete_candidate(table, candidate_id, company_id) ==
    IF candidate_id \notin DOMAIN table \/ table[candidate_id].company_id # company_id
    THEN table
    ELSE [c \in (DOMAIN table) \ {candidate_id} |-> table[c]]

\* Candidate.id default=uuid.uuid4: a key no row holds
NewCandidateId == CHOOSE c \in CandidateIds :
                     c \notin DOMAIN candidate_table
                     /\ \A j \in 1 .. (c - 1) : j \in DOMAIN candidate_table

\* a create request: the body is validated, then the row is stored
CreateCandidateFor(clients, actives) ==
    \E candidate_data \in CreatePayloads, is_active \in actives, client_id \in clients :
        /\ DOMAIN candidate_table # CandidateIds
        /\ candidate_table' =
               IF validate_amount_presence(candidate_data)
               THEN create_candidate(candidate_table, NewCandidateId, candidate_data,
                                     is_active, client_id, ClientRows[client_id])
               ELSE candidate_table
        /\ UNCHANGED <<invoices, files, column_configs, calls, users, locked>>

\* an update request: the body is validated, then merged into the row
UpdateCandidateBy(companies, actives) ==
    \E candidate_id \in CandidateIds, candidate_data \in Optional(UpdatePayloads),
       is_active \in actives, company_id \in companies :
        /\ candidate_table' =
               IF validate_amount_if_present(candidate_data)
               THEN update_candidate(candidate_table, candidate_id, candidate_data,
                                     is_active, company_id)
               ELSE candidate_table
        /\ UNCHANGED <<invoices, files, column_configs, calls, users, locked>>

\* a delete request
DeleteCandidateBy(companies) ==
    \E candidate_id \in CandidateIds, company_id \in companies :
        /\ candidate_table' = delete_candidate(candidate_table, candidate_id, company_id)
        /\ UNCHANGED <<invoices, files, column_configs, calls, users, locked>>

CreateCandidate == CreateCandidateFor(DOMAIN ClientRows, BOOLEAN)

UpdateCandidate == UpdateCandidateBy(CompanyRows, Optional(BOOLEAN))

DeleteCandidate == DeleteCandidateBy(CompanyRows)

InitCandidates ==
    /\ invoices = [i \in {} |-> <<>>]
    /\ files = [n \in {} |-> <<>>]
    /\ candidate_table = [c \in {} |-> <<>>]
    /\ column_configs = ColumnConfigRows
    /\ users = UserRows
    /\ locked = {}
    /\ calls = NoCalls

NextCandidates ==
    \/ CreateCandidate
    \/ UpdateCandidate
    \/ DeleteCandidate

SpecCandidates == InitCandidates /\ [][NextCandidates]_vars

\* The aggregator over the candidates the two requests store: candidates of
\* one client are created, updated and deleted, the configuration of the client is
\* replaced, and previews show the line items made of them.
LineItemColumnLists ==
    {columns \in ColumnLists :
        /\ Len(columns) = 2
        /\ columns[1].field_name = "process"
        /\ columns[2].field_name \in {"amount", "candidate_name"}}

InitLineItems ==
    /\ invoices = [i \in {} |-> <<>>]
    /\ files = [n \in {} |-> <<>>]
    /\ candidate_table = [c \in {} |-> <<>>]
    /\ column_configs = [r \in {} |-> <<>>]
    /\ users = UserRows
    /\ locked = {}
    /\ calls = NoCalls

NextLineItems ==
    \/ CreateCandidateFor(ConfiguredClients, {TRUE})
    \/ UpdateCandidateBy({"co1"}, {<<>>})
    \/ DeleteCandidateBy({"co1"})
    \/ UpsertColumnConfigBy(ConfiguredClients, LineItemColumnLists)
    \/ PreviewDraftBy(Admins)

SpecLineItems == InitLineItems /\ [][NextLineItems]_vars

----------------------------------------------------------------------------
(* The data of a client's latest invoice: GET /invoices/client/{id}/data and *)
(* get_latest_invoice_data_by_client_id of app/services/invoice/service.py.  *)

\* filter(client_id, company_id).order_by(invoice_date.desc(), id.desc()).first():
\* <<>> for None, else the id of the row
LatestInvoice(db, client_id, company_id) ==
    LET rows == {i \in DOMAIN db : db[i].client_id = client_id
                                   /\ db[i].company_id = company_id}
    IN  IF rows = {} THEN <<>>
        ELSE << CHOOSE i \in rows : \A j \in rows :
                   \/ db[j].invoice_date < db[i].invoice_date
                   \/ db[j].invoice_date = db[i].invoice_date /\ j <= i >>

\* ManualTotals(...) built from the row: a rate is read where the row has it
\* (hasattr) and is 0 otherwise; ManualTotals keeps the five amounts
StoredTotals(invoice) ==
    ManualTotals(
        [subtotal |-> invoice.subtotal,
         cgst_rate |-> IF "cgst_rate" \in DOMAIN invoice THEN invoice.cgst_rate ELSE 0,
         cgst_amount |-> invoice.cgst_amount,
         sgst_rate |-> IF "sgst_rate" \in DOMAIN invoice THEN invoice.sgst_rate ELSE 0,
         sgst_amount |-> invoice.sgst_amount,
         igst_rate |-> IF "igst_rate" \in DOMAIN invoice THEN invoice.igst_rate ELSE 0,
         igst_amount |-> invoice.igst_amount,
         grand_total |-> invoice.grand_total])

\* candidates is the order in which the aggregator's query returns the rows of
\* the invoice's candidate_ids; data is <<>> for None.  "if
\* invoice.invoice_snapshot" reads an attribute: on an Invoice without that
\* column the read raises AttributeError.
get_latest_invoice_data_by_client_id(db, client_id, company_id, candidates) ==
    LET found == LatestInvoice(db, client_id, company_id)
    IN  IF found = <<>> THEN [out |-> "OK", data |-> <<>>]
        ELSE LET invoice == db[found[1]]
             IN  IF "invoice_snapshot" \notin DOMAIN invoice
                 THEN [out |-> "AttributeError", data |-> <<>>]
                 ELSE IF invoice.invoice_snapshot # <<>>
                 THEN [out |-> "OK", data |-> <<invoice.invoice_snapshot>>]
                 ELSE prepare_invoice_data(invoice.company_id, invoice.client_id,
                                           candidates, StoredTotals(invoice),
                                           invoice.invoice_number, invoice.invoice_date)

\* the parameters of get_latest_invoice_data_by_client_id of
\* app/services/invoice_service.py, the function the endpoint imports
InvoiceServiceLatestParameters == <<"db", "client_id">>

\* the arguments of the endpoint's call
LatestArguments == <<"db", "client_id", "client.company_id">>

\* the call passes one positional argument more than the function imported
\* takes, which raises TypeError
get_client_latest_invoice_data(caller, client_id, candidates) ==
    IF ~ClientFound(caller, client_id) THEN [out |-> "NotFound", data |-> <<>>]
    ELSE IF Len(LatestArguments) # Len(InvoiceServiceLatestParameters)
    THEN [out |-> "TypeError", data |-> <<>>]
    ELSE get_latest_invoice_data_by_client_id(invoices, client_id, ClientRows[client_id],
                                              candidates)

\* the row orders the candidate query of a reconstruction may return
LatestCandidates(client_id, company_id) ==
    LET found == LatestInvoice(invoices, client_id, company_id)
    IN  IF found # <<>>
        THEN CandidatesIn(StrUuids(invoices[found[1]].candidate_ids))
        ELSE {<<>>}

\* the clients asked for: cl0 has no row
LatestClients == {"cl0", "cl1", "cl2"}

\* the answers of the endpoint and of the service function
LatestAnswers == {"OK", "NotFound", "TypeError", "AttributeError"}

GetClientLatestInvoiceData ==
    \E caller \in Callers, client_id \in LatestClients :
        \E candidates \in LatestCandidates(client_id,
                               IF client_id \in DOMAIN ClientRows
                               THEN ClientRows[client_id] ELSE "none") :
            /\ get_client_latest_invoice_data(caller, client_id, candidates).out
                   \in LatestAnswers
            /\ UNCHANGED vars

\* a call of the service function for a client and the client's company
GetLatestInvoiceDataByClientId ==
    \E client_id \in DOMAIN ClientRows :
        \E candidates \in LatestCandidates(client_id, ClientRows[client_id]) :
            /\ get_latest_invoice_data_by_client_id(invoices, client_id,
                   ClientRows[client_id], candidates).out \in LatestAnswers
            /\ UNCHANGED vars

\* edits of the live tables after invoices were generated
EditedCandidates == {1}

EditPayloads == { [k \in {"candidate_name"} |-> "J Doe-Smith"] }

EditCandidate ==
    \E c \in EditedCandidates, candidate_data \in EditPayloads :
        /\ candidate_table' =
               [candidate_table EXCEPT ![c].candidate_data = DictUpdate(@, candidate_data)]
        /\ UNCHANGED <<invoices, files, column_configs, calls, users, locked>>

EditColumnLists ==
    {columns \in ColumnLists : Len(columns) = 1 /\ columns[1].field_name = "process"}

\* invoices are stored under any free key: the query orders by id
NextLatest ==
    \/ InvoiceServiceGenerateInvoiceWith(ServiceRequests, InvoiceNumbers, NewIds)
    \/ SendInvoiceBy(Admins)
    \/ EditCandidate
    \/ UpsertColumnConfigBy(ConfiguredClients, EditColumnLists)
    \/ GetClientLatestInvoiceData
    \/ GetLatestInvoiceDataByClientId

SpecLatest == Init /\ [][NextLatest]_vars

----------------------------------------------------------------------------
(* Users: app/services/user_service.py, POST /auth/register, the            *)
(* dependencies of app/core/dependencies.py and the test administrator that *)
(* scripts/verify_invoice_gen.py sets up.  A page of get_users is the whole *)
(* result: skip is 0 and limit exceeds the number of rows.                  *)

\* the email of the test administrator of scripts/verify_invoice_gen.py
TestAdminEmail == "invoice_admin@test.com"

\* UserCreate.email
Emails == {"a@x", "b@x", TestAdminEmail}

\* the users table holds at most this many rows
MaxUsers == 4

\* the bodies of POST /auth/register: a second superuser without a company, a
\* user of a company, a superuser of a company
RegisterBodies ==
    { [email |-> "b@x", company_id |-> "none", is_superuser |-> TRUE],
      [email |-> "b@x", company_id |-> "co1", is_superuser |-> FALSE],
      [email |-> "a@x", company_id |-> "co2", is_superuser |-> TRUE] }

\* UserUpdate.email of the bodies of PATCH /users/{user_id}: <<>> for None
UpdateEmails == {<<>>} \cup {<<email>> : email \in Emails}

AdminRoleNames == {"admin", "company_admin", "hr_admin"}

\* get_current_company_admin lets the user through
get_current_company_admin(user) ==
    \/ user.is_superuser
    \/ /\ user.company_id # "none"
       /\ \E role \in user.roles : Lower(role) \in AdminRoleNames

EmailTaken(table, email) == \E u \in DOMAIN table : table[u].email = email

\* User.id default=uuid.uuid4: a key no row holds
NewUserId(table) == Cardinality(DOMAIN table) + 1

\* auth_service.create_user: the table after its commit, the user has no role
\* yet; the table is unchanged when the email is taken (ValueError)
auth_create_user(table, email, company_id, is_superuser) ==
    IF EmailTaken(table, email) THEN table
    ELSE [u \in (DOMAIN table) \cup {NewUserId(table)} |->
            IF u \in DOMAIN table THEN table[u]
            ELSE [email |-> email, company_id |-> company_id,
                  is_superuser |-> is_superuser, roles |-> {}]]

\* POST /auth/register: create_user with the company and the superuser flag of
\* the body
register_superuser(table, user_data) ==
    auth_create_user(table, user_data.email, user_data.company_id, user_data.is_superuser)

\* user_service.get_user_by_id lets current_user reach the user
UserAccess(table, user_id, current_user) ==
    \/ table[current_user].is_superuser
    \/ table[user_id].company_id = table[current_user].company_id

\* user_service.update_user: the table after its commit; email is <<>> for
\* None.  The table is unchanged when there is no such user, when access is
\* denied, and when the commit fails because another user holds the email
\* (the column is unique).
update_user(table, user_id, email, current_user) ==
    IF user_id \notin DOMAIN table THEN table
    ELSE IF ~UserAccess(table, user_id, current_user) THEN table
    ELSE IF email = <<>> THEN table
    ELSE IF \E u \in (DOMAIN table) \ {user_id} : table[u].email = email[1] THEN table
    ELSE [table EXCEPT ![user_id].email = email[1]]

\* assign_role_to_user: the table after its last commit.  A role is found or
\* created by its name within the user's company, so the roles of a user are
\* kept as the set of their names.
assign_role_to_user(table, u, role_name) ==
    [table EXCEPT ![u].roles = @ \cup {role_name}]

\* create_company_admin and create_employee up to the commit of create_user;
\* the table is unchanged when the call raises
create_company_admin(table, company_id, email, current_user) ==
    IF ~table[current_user].is_superuser THEN table
    ELSE auth_create_user(table, email, company_id, FALSE)

create_employee(table, email, current_user) ==
    IF table[current_user].company_id = "none" THEN table
    ELSE auth_create_user(table, email, table[current_user].company_id, FALSE)

\* the call goes on to assign_role_to_user when create_user stored a user
RoleCalls(table, after, role_name) ==
    [u \in (DOMAIN calls) \cup ((DOMAIN after) \ (DOMAIN table)) |->
        IF u \in DOMAIN calls THEN calls[u] ELSE [role_name |-> role_name]]

\* faulty variant: every user of a company sees the company's users
get_users_company_wide(table, current_user) ==
    IF table[current_user].is_superuser THEN DOMAIN table
    ELSE {u \in DOMAIN table : table[u].company_id = table[current_user].company_id}

\* the ids of the rows get_users returns
get_users(table, current_user) ==
    IF table[current_user].is_superuser THEN DOMAIN table
    ELSE IF table[current_user].company_id # "none"
    THEN IF "company_admin" \in table[current_user].roles
         THEN {u \in DOMAIN table : table[u].company_id = table[current_user].company_id}
         ELSE {u \in DOMAIN table : u = current_user}
    ELSE {u \in DOMAIN table : u = current_user}

\* POST /users/admin, behind get_current_active_superuser: create_user commits
CreateCompanyAdmin ==
    \E current_user \in DOMAIN users, company_id \in CompanyRows, email \in Emails :
        /\ Cardinality(DOMAIN users) < MaxUsers
        /\ users[current_user].is_superuser
        /\ users' = create_company_admin(users, company_id, email, current_user)
        /\ calls' = RoleCalls(users, users', "company_admin")
        /\ UNCHANGED <<invoices, files, candidate_table, column_configs, locked>>

\* POST /users/employee, behind get_current_company_admin: create_user commits
CreateEmployee ==
    \E current_user \in DOMAIN users, email \in Emails :
        /\ Cardinality(DOMAIN users) < MaxUsers
        /\ get_current_company_admin(users[current_user])
        /\ users' = create_employee(users, email, current_user)
        /\ calls' = RoleCalls(users, users', "employee")
        /\ UNCHANGED <<invoices, files, candidate_table, column_configs, locked>>

\* POST /auth/register, behind no dependency: create_user commits
RegisterSuperuser ==
    \E user_data \in RegisterBodies :
        /\ Cardinality(DOMAIN users) < MaxUsers
        /\ users' = register_superuser(users, user_data)
        /\ UNCHANGED <<invoices, files, candidate_table, column_configs, calls, locked>>

\* PATCH /users/{user_id}, behind get_current_company_admin
UpdateUser ==
    \E current_user \in DOMAIN users, user_id \in 1 .. MaxUsers, email \in UpdateEmails :
        /\ get_current_company_admin(users[current_user])
        /\ users' = update_user(users, user_id, email, current_user)
        /\ UNCHANGED <<invoices, files, candidate_table, column_configs, calls, locked>>

\* the second half of the two calls: assign_role_to_user commits the role
AssignRoleToUser ==
    \E u \in DOMAIN calls :
        /\ users' = assign_role_to_user(users, u, calls[u].role_name)
        /\ calls' = [v \in (DOMAIN calls) \ {u} |-> calls[v]]
        /\ UNCHANGED <<invoices, files, candidate_table, column_configs, locked>>

\* a commit of assign_role_to_user raises: the request ends and the user that
\* create_user committed stays without the role
AssignRoleFails ==
    \E u \in DOMAIN calls :
        /\ calls' = [v \in (DOMAIN calls) \ {u} |-> calls[v]]
        /\ UNCHANGED <<invoices, files, candidate_table, column_configs, users, locked>>

\* scripts/verify_invoice_gen.py "Ensure User": the test administrator of the
\* test company is created with the role "Admin" when no user has its email;
\* a user who has the email and no role is given that role
EnsureTestAdmin ==
    \E company_id \in {"co1"} :
        /\ EmailTaken(users, TestAdminEmail) \/ Cardinality(DOMAIN users) < MaxUsers
        /\ users' =
             IF ~EmailTaken(users, TestAdminEmail)
             THEN [u \in (DOMAIN users) \cup {NewUserId(users)} |->
                      IF u \in DOMAIN users THEN users[u]
                      ELSE [email |-> TestAdminEmail, company_id |-> company_id,
                            is_superuser |-> FALSE, roles |-> {"Admin"}]]
             ELSE LET u == CHOOSE u \in DOMAIN users : users[u].email = TestAdminEmail
                  IN  IF users[u].roles = {}
                      THEN [users EXCEPT ![u].roles = {"Admin"}]
                      ELSE users
        /\ UNCHANGED <<invoices, files, candidate_table, column_configs, calls, locked>>

\* GET /users, behind get_current_user
ReadUsers ==
    \E current_user \in DOMAIN users :
        Respond(Result("OK", invoices, files, <<get_users(users, current_user)>>))

NextUsers ==
    \/ CreateCompanyAdmin
    \/ CreateEmployee
    \/ RegisterSuperuser
    \/ UpdateUser
    \/ AssignRoleToUser
    \/ AssignRoleFails
    \/ EnsureTestAdmin
    \/ ReadUsers

SpecUsers == Init /\ [][NextUsers]_vars

----------------------------------------------------------------------------
(* Properties.  A property about the answer to a request is stated over    *)
(* every request that can be made in a reachable state: over the endpoint  *)
(* for every caller, and over the service function the endpoint calls.     *)

Live == DOMAIN invoices

Finalized(i) == invoices[i].status \in {"GENERATED", "SENT"}

\* the changes of status a Result makes to the rows it keeps
Moves(r) ==
    {<<invoices[i].status, r.invoices[i].status>> :
        i \in {j \in Live \cap DOMAIN r.invoices :
                    r.invoices[j].status # invoices[j].status}}

\* the Result left the table and the content store as they were
NoEffect(r) == r.invoices = invoices /\ r.files = files

\* C1: every change of an invoice's status is DRAFT -> GENERATED, made by
\* finalize, or GENERATED -> SENT, made by send; generate, update, delete, get
\* and preview change no status, so no status moves backward or skips a step.
C1_StatusTransitions ==
    /\ \A i \in Live :
        /\ Moves(finalize_invoice(invoices, files, i)) \subseteq {<<"DRAFT", "GENERATED">>}
        /\ Moves(send_invoice(invoices, files, i)) \subseteq {<<"GENERATED", "SENT">>}
        /\ Moves(delete_draft_invoice(invoices, files, i)) = {}
        /\ \A u \in UpdateRequests : \A candidates \in UpdateCandidates(i, u.candidate_ids) :
               Moves(update_invoice(invoices, files, i, u.candidate_ids, u.manual_totals,
                                    u.invoice_date, u.invoice_number, candidates)) = {}
    /\ \A caller \in Callers, i \in InvoiceIds :
        /\ Moves(finalize_draft_invoice(caller, i)) \subseteq {<<"DRAFT", "GENERATED">>}
        /\ Moves(send_invoice_endpoint(caller, i)) \subseteq {<<"GENERATED", "SENT">>}
        /\ Moves(delete_draft(caller, i)) = {}
        /\ Moves(get_invoice(caller, i)) = {}
        /\ \A u \in UpdateRequests : \A candidates \in UpdateCandidates(i, u.candidate_ids) :
               Moves(update_draft_invoice(caller, i, u.candidate_ids, u.manual_totals,
                                          u.invoice_date, u.invoice_number, candidates)) = {}
    /\ \A caller \in Callers, p \in GenerateRequests, n \in InvoiceNumbers :
            \A candidates \in CandidatesIn(p.candidate_ids) :
               Moves(create_invoice(caller, p.client_id, p.candidate_ids, p.manual_totals,
                                    n, p.invoice_date, candidates)) = {}
    /\ \A p \in ServiceRequests, n \in InvoiceNumbers, status \in RequestStatuses :
            \A candidates \in CandidatesIn(p.candidate_ids), id \in NewIds :
               /\ Moves(generate_invoice(invoices, files, id, ClientRows[p.client_id],
                            p.client_id, p.candidate_ids, p.manual_totals, n,
                            p.invoice_date, status, candidates)) = {}
               /\ Moves(invoice_service_generate_invoice(invoices, files, id,
                            ClientRows[p.client_id], p.client_id, p.candidate_ids,
                            p.manual_totals, n, p.invoice_date, candidates)) = {}

\* a GENERATED invoice can be sent while another invoice has already gone on
\* to SENT
C1_Witness ==
    \E i, j \in Live :
        /\ invoices[i].status = "SENT"
        /\ invoices[j].status = "GENERATED"
        /\ Moves(send_invoice(invoices, files, j)) = {<<"GENERATED", "SENT">>}

\* C2: update, delete and finalize of an invoice that is GENERATED or SENT fail
\* with InvalidState and change nothing: in the service functions, and at the
\* endpoints for every caller who may see the invoice.
C2_NonDraftRejected ==
    \A i \in Live : Finalized(i) =>
        /\ finalize_invoice(invoices, files, i) = Unchanged("InvalidState")
        /\ delete_draft_invoice(invoices, files, i) = Unchanged("InvalidState")
        /\ \A u \in UpdateRequests : \A candidates \in UpdateCandidates(i, u.candidate_ids) :
               update_invoice(invoices, files, i, u.candidate_ids, u.manual_totals,
                              u.invoice_date, u.invoice_number, candidates)
                   = Unchanged("InvalidState")
        /\ \A caller \in Callers : InvoiceFound(caller, i) =>
            /\ finalize_draft_invoice(caller, i) = Unchanged("InvalidState")
            /\ delete_draft(caller, i) = Unchanged("InvalidState")
            /\ \A u \in UpdateRequests :
                 \A candidates \in UpdateCandidates(i, u.candidate_ids) :
                   update_draft_invoice(caller, i, u.candidate_ids, u.manual_totals,
                                        u.invoice_date, u.invoice_number, candidates)
                       = Unchanged("InvalidState")

\* a SENT invoice and a GENERATED invoice exist, and their company's
\* administrator is refused the delete of one and the update of the other
C2_Witness ==
    \E i, j \in Live, caller \in Callers, u \in UpdateRequests :
        /\ invoices[i].status = "SENT" /\ invoices[j].status = "GENERATED"
        /\ ~caller.is_superuser
        /\ delete_draft(caller, i).out = "InvalidState"
        /\ update_draft_invoice(caller, j, u.candidate_ids, u.manual_totals,
                                u.invoice_date, u.invoice_number, <<>>).out = "InvalidState"

\* C3: send on an invoice that is already SENT succeeds, returns the invoice as
\* it is and changes nothing; sending a GENERATED invoice twice leaves the same
\* state and returns the same invoice as sending it once.
C3_SendIdempotent ==
    \A i \in Live :
        /\ invoices[i].status = "SENT" =>
            /\ send_invoice(invoices, files, i) = Result("OK", invoices, files, <<invoices[i]>>)
            /\ \A caller \in Callers : InvoiceFound(caller, i) =>
                   send_invoice_endpoint(caller, i)
                       = Result("OK", invoices, files, <<invoices[i]>>)
        /\ invoices[i].status = "GENERATED" =>
            LET once == send_invoice(invoices, files, i)
            IN  /\ once.out = "OK"
                /\ send_invoice(once.invoices, once.files, i) = once

\* an invoice is SENT and its company's administrator sends it again
C3_Witness ==
    \E i \in Live, caller \in Callers :
        /\ invoices[i].status = "SENT"
        /\ caller.company_id = invoices[i].company_id
        /\ send_invoice_endpoint(caller, i).out = "OK"

\* the snapshot a row stores, <<>> when it stores none
StoredSnapshot(row) ==
    IF "invoice_snapshot" \in DOMAIN row THEN <<row.invoice_snapshot>> ELSE <<>>

\* the fields of a row that are fixed once the invoice has left DRAFT
Frozen(row) ==
    <<StoredSnapshot(row), row.subtotal, row.cgst_amount, row.sgst_amount,
      row.igst_amount, row.grand_total, row.candidate_ids, row.invoice_number,
      row.file_url>>

Kept(i, r) == i \in DOMAIN r.invoices /\ Frozen(r.invoices[i]) = Frozen(invoices[i])

\* an invoice that is GENERATED or SENT keeps its row and the fields of Frozen
\* through every update, finalize, send and delete, whichever invoice the call
\* names
FrozenColumnsKept ==
    \A i \in Live : Finalized(i) =>
        /\ \A j \in Live :
            /\ Kept(i, finalize_invoice(invoices, files, j))
            /\ Kept(i, send_invoice(invoices, files, j))
            /\ Kept(i, delete_draft_invoice(invoices, files, j))
            /\ \A u \in UpdateRequests :
                 \A candidates \in UpdateCandidates(j, u.candidate_ids) :
                   Kept(i, update_invoice(invoices, files, j, u.candidate_ids,
                                          u.manual_totals, u.invoice_date,
                                          u.invoice_number, candidates))
        /\ \A caller \in Callers, j \in InvoiceIds :
            /\ Kept(i, finalize_draft_invoice(caller, j))
            /\ Kept(i, send_invoice_endpoint(caller, j))
            /\ Kept(i, delete_draft(caller, j))
            /\ \A u \in UpdateRequests :
                 \A candidates \in UpdateCandidates(j, u.candidate_ids) :
                   Kept(i, update_draft_invoice(caller, j, u.candidate_ids,
                                                u.manual_totals, u.invoice_date,
                                                u.invoice_number, candidates))

\* C4 (as claimed): an invoice that is GENERATED or SENT keeps its row, and
\* its snapshot, totals, candidate_ids, invoice_number and file_url, through
\* every update, finalize, send and delete; and the row stores a snapshot, the
\* data its document was rendered from, to read back.
C4_FrozenAfterDraft ==
    /\ FrozenColumnsKept
    /\ \A i \in Live : Finalized(i) => StoredSnapshot(invoices[i]) # <<>>

\* C5: the row a successful generate stores and returns carries the subtotal,
\* the three tax amounts and the grand_total of the manual_totals it was given,
\* also when grand_total is not the sum of the subtotal and the tax amounts.
C5_ManualTotalsStored ==
    \A p \in ServiceRequests, n \in InvoiceNumbers, status \in RequestStatuses :
        \A candidates \in CandidatesIn(p.candidate_ids), id \in NewIds :
            \A r \in { generate_invoice(invoices, files, id, ClientRows[p.client_id],
                           p.client_id, p.candidate_ids, p.manual_totals, n,
                           p.invoice_date, status, candidates),
                       invoice_service_generate_invoice(invoices, files, id,
                           ClientRows[p.client_id], p.client_id, p.candidate_ids,
                           p.manual_totals, n, p.invoice_date, candidates) } :
                r.out = "OK" =>
                    /\ r.ret[1].subtotal = p.manual_totals.subtotal
                    /\ r.ret[1].cgst_amount = p.manual_totals.cgst_amount
                    /\ r.ret[1].sgst_amount = p.manual_totals.sgst_amount
                    /\ r.ret[1].igst_amount = p.manual_totals.igst_amount
                    /\ r.ret[1].grand_total = p.manual_totals.grand_total
                    /\ r.invoices[r.ret[1].id] = r.ret[1]

\* a stored invoice whose grand_total is not its subtotal plus its tax amounts
C5_Witness ==
    \E i \in Live :
        /\ invoices[i].grand_total = TotalsOdd.grand_total
        /\ invoices[i].grand_total # invoices[i].subtotal + invoices[i].cgst_amount
                                     + invoices[i].sgst_amount + invoices[i].igst_amount

\* every id of the list names a candidate of the client and the company
AllResolve(candidate_ids, client_id, company_id) ==
    \A k \in 1 .. Len(candidate_ids) :
        /\ candidate_ids[k] \in DOMAIN candidate_table
        /\ candidate_table[candidate_ids[k]].client_id = client_id
        /\ candidate_table[candidate_ids[k]].company_id = company_id

\* an invoice of the company carries the number
NumberHeld(company_id, n) ==
    \E j \in Live : invoices[j].company_id = company_id /\ invoices[j].invoice_number = n

\* the Results of the two generate functions for one call
Generated(p, n, status, candidates, id) ==
    { generate_invoice(invoices, files, id, ClientRows[p.client_id], p.client_id,
                       p.candidate_ids, p.manual_totals, n, p.invoice_date, status,
                       candidates),
      invoice_service_generate_invoice(invoices, files, id, ClientRows[p.client_id],
                       p.client_id, p.candidate_ids, p.manual_totals, n, p.invoice_date,
                       candidates) }

\* C6 (as claimed): no two invoices of one company carry the same
\* invoice_number; generate with a number in use in the company fails with
\* Conflict and stores no row; an update, once past its status check, to a
\* number another invoice of the company holds fails with Conflict, and one
\* that supplies the invoice's own number does not.
C6_NumberUniquePerCompany ==
    /\ \A i, j \in Live :
          (i # j /\ invoices[i].company_id = invoices[j].company_id)
              => invoices[i].invoice_number # invoices[j].invoice_number
    /\ \A p \in ServiceRequests, n \in InvoiceNumbers, status \in RequestStatuses :
            \A candidates \in CandidatesIn(p.candidate_ids), id \in NewIds :
                NumberHeld(ClientRows[p.client_id], n) =>
                    \A r \in Generated(p, n, status, candidates, id) :
                        r.out = "Conflict" /\ r.invoices = invoices
    /\ \A i \in Live, n \in InvoiceNumbers :
            \A candidates \in UpdateCandidates(i, <<>>) :
              LET r == update_invoice_draft(invoices, files, i, <<>>, <<>>, <<>>, <<n>>,
                                            candidates)
                  taken == \E j \in Live \ {i} :
                              /\ invoices[j].company_id = invoices[i].company_id
                              /\ invoices[j].invoice_number = n
              IN  /\ taken => r.out = "Conflict" /\ r.invoices = invoices
                  /\ n = invoices[i].invoice_number => r.out # "Conflict"

\* C7 (as claimed): a generate for a client and candidates of that client,
\* with an invoice_number that no invoice of the client's company holds but an
\* invoice of another company does, succeeds.
C7_NumberReusedAcrossCompanies ==
    \A p \in ServiceRequests, n \in InvoiceNumbers, status \in RequestStatuses :
        \A candidates \in CandidatesIn(p.candidate_ids), id \in NewIds :
            (/\ ~NumberHeld(ClientRows[p.client_id], n)
             /\ \E i \in Live : invoices[i].invoice_number = n)
            => \A r \in Generated(p, n, status, candidates, id) : r.out = "OK"

\* the caller is an administrator of a company other than the invoice's
OtherTenant(caller, i) ==
    ~caller.is_superuser /\ invoices[i].company_id # caller.company_id

\* C8: get, update, finalize, send and delete of an invoice of another company
\* by a caller who is no superuser answer NotFound, exactly as for an id no
\* invoice has, whatever the invoice's status, and change neither the table
\* nor the content store.
C8_OtherTenantNotFound ==
    \A caller \in Callers, i \in Live, none \in NewIds : OtherTenant(caller, i) =>
        /\ get_invoice(caller, i) = Unchanged("NotFound")
        /\ get_invoice(caller, i) = get_invoice(caller, none)
        /\ finalize_draft_invoice(caller, i) = Unchanged("NotFound")
        /\ finalize_draft_invoice(caller, i) = finalize_draft_invoice(caller, none)
        /\ send_invoice_endpoint(caller, i) = Unchanged("NotFound")
        /\ send_invoice_endpoint(caller, i) = send_invoice_endpoint(caller, none)
        /\ delete_draft(caller, i) = Unchanged("NotFound")
        /\ delete_draft(caller, i) = delete_draft(caller, none)
        /\ \A u \in UpdateRequests : \A candidates \in UpdateCandidates(i, u.candidate_ids) :
            /\ update_draft_invoice(caller, i, u.candidate_ids, u.manual_totals,
                                    u.invoice_date, u.invoice_number, candidates)
                   = Unchanged("NotFound")
            /\ update_draft_invoice(caller, i, u.candidate_ids, u.manual_totals,
                                    u.invoice_date, u.invoice_number, candidates)
                   = update_draft_invoice(caller, none, u.candidate_ids, u.manual_totals,
                                          u.invoice_date, u.invoice_number, candidates)

\* an administrator of one company is answered NotFound for a GENERATED and
\* for a SENT invoice of the other company
C8_Witness ==
    \E caller \in Callers, i, j \in Live :
        /\ OtherTenant(caller, i) /\ OtherTenant(caller, j)
        /\ invoices[i].status = "GENERATED" /\ invoices[j].status = "SENT"
        /\ finalize_draft_invoice(caller, i).out = "NotFound"
        /\ send_invoice_endpoint(caller, j).out = "NotFound"

\* C9 (as claimed): for a request whose client the caller may use, generate and
\* previewDraft are rejected with a validation error exactly when some id of
\* candidate_ids does not name a candidate of the requested client and the
\* request's company, and a rejected request stores no row.
C9_CandidateCheck ==
    \A caller \in Callers, p \in GenerateRequests \cup PreviewRequests,
       n \in InvoiceNumbers :
        \A candidates \in CandidatesIn(p.candidate_ids) :
            ClientFound(caller, p.client_id) =>
                LET resolve == AllResolve(p.candidate_ids, p.client_id,
                                          RequestCompany(caller, p.client_id))
                    g == create_invoice(caller, p.client_id, p.candidate_ids,
                                        p.manual_totals, n, p.invoice_date, candidates)
                    v == preview_draft(caller, p.client_id, p.candidate_ids,
                                       p.manual_totals, n, p.invoice_date, candidates)
                IN  /\ (g.out # "ValidationError") <=> resolve
                    /\ (v.out # "ValidationError") <=> resolve
                    /\ ~resolve => g.invoices = invoices /\ v.invoices = invoices

\* C10: previewDraft leaves the invoices table as it is, whether the preview
\* succeeds or is rejected: at the endpoint for every caller and request, and
\* in the service function.
C10_PreviewStoresNothing ==
    \A caller \in Callers, p \in GenerateRequests \cup PreviewRequests,
       n \in InvoiceNumbers :
        \A candidates \in CandidatesIn(p.candidate_ids) :
            /\ preview_draft(caller, p.client_id, p.candidate_ids, p.manual_totals, n,
                             p.invoice_date, candidates).invoices = invoices
            /\ \A company_id \in CompanyRows :
                   preview_draft_invoice(invoices, files, company_id, p.client_id,
                                         p.candidate_ids, p.manual_totals, n,
                                         p.invoice_date, candidates).invoices = invoices

\* invoices are stored, and the content store holds a document of two lines
\* with the totals that only a preview is asked for
C10_Witness ==
    /\ Live # {}
    /\ \E name \in DOMAIN files :
           /\ Len(files[name].line_items) = 2
           /\ files[name].financials = TotalsOdd

\* C11 (as claimed): a preview for invoice number N writes N_preview.docx and
\* nothing else, so the artifact a persisted invoice numbered N refers to keeps
\* its content.
C11_PreviewArtifactSeparate ==
    \A caller \in Callers, p \in PreviewRequests, n \in InvoiceNumbers :
        \A candidates \in CandidatesIn(p.candidate_ids) :
            LET r == preview_draft(caller, p.client_id, p.candidate_ids, p.manual_totals,
                                   n, p.invoice_date, candidates)
            IN  \A i \in DOMAIN invoices :
                    (r.out = "OK" /\ invoices[i].invoice_number = n) =>
                        /\ get_temp_invoice_path(n) \in DOMAIN r.files
                        /\ \A name \in (DOMAIN files) \ {get_temp_invoice_path(n)} :
                               name \in DOMAIN r.files /\ r.files[name] = files[name]

\* the document shows the number, the date, the parties, the totals and as
\* many lines as the row stores
RenderedFrom(data, row) ==
    /\ data.invoice_number = row.invoice_number
    /\ data.invoice_date = strftime(row.invoice_date)
    /\ data.company.name = row.company_id
    /\ data.client.name = row.client_id
    /\ data.financials.subtotal = row.subtotal
    /\ data.financials.cgst_amount = row.cgst_amount
    /\ data.financials.sgst_amount = row.sgst_amount
    /\ data.financials.igst_amount = row.igst_amount
    /\ data.financials.grand_total = row.grand_total
    /\ Len(data.line_items) = Len(row.candidate_ids)

\* the artifact a row's file_url names exists and was rendered from the row
ArtifactCurrent(row) ==
    /\ UrlFileName(row.file_url) \in DOMAIN files
    /\ RenderedFrom(files[UrlFileName(row.file_url)], row)

\* C12 (as claimed): whatever operations on one company's invoices ran or
\* failed part-way, every persisted row's file_url names an existing artifact
\* rendered from what the row stores.
C12_ArtifactMatchesRow == \A i \in DOMAIN invoices : ArtifactCurrent(invoices[i])

\* both calls have ended
BothDone == \A p \in Procs : calls[p].pc = "done"

\* C13 (as claimed): of two concurrent generate calls with one invoice number
\* for one company, at most one row with that company and number is persisted
\* and the call that loses ends with a Conflict error.
C13_RaceLoserConflict ==
    (/\ DOMAIN calls = Procs
     /\ BothDone
     /\ calls[1].company_id = calls[2].company_id
     /\ calls[1].invoice_number = calls[2].invoice_number) =>
        /\ Cardinality({i \in DOMAIN invoices :
                            /\ invoices[i].company_id = calls[1].company_id
                            /\ invoices[i].invoice_number = calls[1].invoice_number}) <= 1
        /\ \E p \in Procs : calls[p].out = "Conflict"

\* the configured columns of a client, none when it has no configuration
Configured(client_id) ==
    IF \E r \in DOMAIN column_configs : column_configs[r].client_id = client_id
    THEN (CHOOSE row \in {column_configs[r] : r \in DOMAIN column_configs} :
              row.client_id = client_id).columns
    ELSE <<>>

\* the field names in use that denote a serial number
SerialNames == {"Sr_No", "serial_no", "S.No"}

NotSerialName(col) == col.field_name \notin SerialNames

FieldNames(columns) == [j \in 1 .. Len(columns) |-> columns[j].field_name]

\* the snapshots the aggregator makes for a client in the current state, for
\* every list of candidate rows its query may return
Snapshots(client_id) ==
    UNION { { prepare_invoice_data(ClientRows[client_id], client_id, candidates,
                                   manual_totals, "INV-1", 1).data[1] :
                manual_totals \in {TotalsGood, TotalsOdd} } :
            candidates \in UNION {CandidatesIn(ids) : ids \in {<<>>, <<1>>, <<2, 1>>, <<3>>}} }

\* C15 as stated: with a non-empty configuration every line item has a key for
\* every configured field_name, and the key amount.
C15_AllConfiguredKeys ==
    \A client_id \in DOMAIN ClientRows : \A data \in Snapshots(client_id) :
        Configured(client_id) # <<>> =>
            \A j \in 1 .. Len(data.line_items) :
                Range(FieldNames(Configured(client_id))) \cup {"amount"}
                    \subseteq DOMAIN data.line_items[j]

\* C15 as amended: with a non-empty configuration every line item has a key for
\* every configured field_name that is not a serial-number synonym, and always
\* the key amount, configured or not.
C15_LineItemKeys ==
    \A client_id \in DOMAIN ClientRows : \A data \in Snapshots(client_id) :
        Configured(client_id) # <<>> =>
            \A j \in 1 .. Len(data.line_items) :
                Range(FieldNames(SelectSeq(Configured(client_id), NotSerialName)))
                    \cup {"amount"} \subseteq DOMAIN data.line_items[j]

\* a preview was rendered for a client whose configuration names process and
\* not amount: its line items carry both
C15_Witness ==
    /\ FieldNames(Configured("cl1")) = <<"process">>
    /\ \E name \in DOMAIN files :
           /\ files[name] \in Snapshots("cl1")
           /\ Len(files[name].line_items) = 2
           /\ \A j \in 1 .. 2 :
                  {"process", "amount"} \subseteq DOMAIN files[name].line_items[j]

\* C16: the columns of a snapshot are the configured columns without the
\* serial-number synonyms when that list is not empty, and otherwise (no
\* configuration, an empty one, only synonyms) candidate_name and amount, in
\* that order.
C16_EffectiveColumns ==
    \A client_id \in DOMAIN ClientRows : \A data \in Snapshots(client_id) :
        LET kept == SelectSeq(Configured(client_id), NotSerialName)
        IN  FieldNames(data.columns) =
                IF kept # <<>> THEN FieldNames(kept) ELSE <<"candidate_name", "amount">>

\* a preview was rendered for a client whose configuration holds nothing but
\* serial-number synonyms: it shows the two fallback columns
C16_Witness ==
    /\ FieldNames(Configured("cl1")) = <<"Sr_No", "serial_no">>
    /\ \E name \in DOMAIN files :
           /\ files[name] \in Snapshots("cl1")
           /\ FieldNames(files[name].columns) = <<"candidate_name", "amount">>

\* a company id and a client id that no row carries
MissingCompany == "co0"

MissingClient == "cl0"

\* the company and client ids a service call may be given
AnyCompany == CompanyRows \cup {MissingCompany}

AnyClient == (DOMAIN ClientRows) \cup {MissingClient}

RecordMissing(company_id, client_id) ==
    \/ \A co \in CompanyRows : co # company_id
    \/ \A cl \in DOMAIN ClientRows : cl # client_id

\* C17: prepare fails with NotFound when the company or the client has no
\* record; a generate that gets as far as prepare, and a previewDraft, then
\* fail with NotFound too, leaving the invoices table and the content store as
\* they were.
C17_PrepareNotFound ==
    \A company_id \in AnyCompany, client_id \in AnyClient :
        RecordMissing(company_id, client_id) =>
            \A candidate_ids \in {<<>>, <<1>>, <<2, 1>>}, invoice_number \in InvoiceNumbers :
            \A candidates \in CandidatesIn(candidate_ids), id \in NewIds :
                LET prep == prepare_invoice_data(company_id, client_id, candidates,
                                TotalsGood, invoice_number, 1)
                    prev == preview_draft_invoice(invoices, files, company_id, client_id,
                                candidate_ids, TotalsGood, invoice_number, 1, candidates)
                    gen == generate_invoice(invoices, files, id, company_id, client_id,
                                candidate_ids, TotalsGood, invoice_number, 1, "DRAFT",
                                candidates)
                    earlier == invoice_service_generate_invoice(invoices, files, id,
                                company_id, client_id, candidate_ids, TotalsGood,
                                invoice_number, 1, candidates)
                IN  /\ prep.out = "NotFound"
                    /\ prev.out = "NotFound"
                    /\ prev.invoices = invoices /\ prev.files = files
                    /\ gen.out \in {"NotFound", "Conflict"}
                    /\ gen.out = "Conflict" =>
                           \E i \in DOMAIN invoices :
                               /\ invoices[i].company_id = company_id
                               /\ invoices[i].invoice_number = invoice_number
                    /\ gen.invoices = invoices /\ gen.files = files
                    /\ earlier = Unchanged("NotFound")

\* rows and artifacts exist, and a generate for a client without a record,
\* under a number the company has not used, fails with NotFound
C17_Witness ==
    /\ Cardinality(DOMAIN invoices) = 2
    /\ DOMAIN files # {}
    /\ \E i \in DOMAIN invoices : invoices[i].company_id = "co1"
    /\ \E invoice_number \in InvoiceNumbers, id \in NewIds :
           /\ \A i \in DOMAIN invoices :
                  invoices[i].company_id = "co1" => invoices[i].invoice_number # invoice_number
           /\ generate_invoice(invoices, files, id, "co1", MissingClient, <<1>>,
                               TotalsGood, invoice_number, 1, "DRAFT", <<1>>).out = "NotFound"

\* C18 (as claimed): in every reachable state the status of every persisted
\* invoice is one of DRAFT, GENERATED, SENT, and a generate under a number not
\* yet in use stores the invoice with the status the caller supplied.
C18_SuppliedStatusStored ==
    /\ \A i \in DOMAIN invoices : invoices[i].status \in {"DRAFT", "GENERATED", "SENT"}
    /\ \A p \in ServiceRequests, n \in InvoiceNumbers, status \in RequestStatuses :
           \A candidates \in CandidatesIn(p.candidate_ids), id \in NewIds :
               (\A i \in DOMAIN invoices : invoices[i].invoice_number # n) =>
                   LET r == generate_invoice(invoices, files, id, ClientRows[p.client_id],
                                p.client_id, p.candidate_ids, p.manual_totals, n,
                                p.invoice_date, status, candidates)
                   IN  /\ r.out = "OK"
                       /\ r.ret[1].status = status
                       /\ r.invoices[id] = r.ret[1]

\* the invoices and the clients that pass the filters other than the tenant's
InvoicePasses(i, f) ==
    /\ f.status = <<>> \/ <<invoices[i].status>> = f.status
    /\ f.client_id = <<>> \/ <<invoices[i].client_id>> = f.client_id
    /\ f.from_date = <<>> \/ invoices[i].invoice_date >= f.from_date[1]
    /\ f.to_date = <<>> \/ invoices[i].invoice_date <= f.to_date[1]

ClientPasses(cl, f) ==
    /\ f.is_active = <<>> \/ <<ClientActive[cl]>> = f.is_active
    /\ f.search = <<>> \/ NameContains(cl, f.search[1])
    /\ f.company_id = <<>> \/ <<ClientRows[cl]>> = f.company_id

\* C19: whatever the filters, list invoices and list clients give a caller who
\* is not a superuser only rows of the caller's own company, and give a
\* superuser the rows of every company (all rows that pass the filters).
C19_ListingScoped ==
    \A caller \in Callers :
        /\ \A f \in InvoiceFilters :
               IF caller.is_superuser
               THEN list_invoices(caller, f) = {i \in DOMAIN invoices : InvoicePasses(i, f)}
               ELSE \A i \in list_invoices(caller, f) :
                        invoices[i].company_id = caller.company_id
        /\ \A f \in ClientFilters :
               IF caller.is_superuser
               THEN list_clients(caller, f) = {cl \in DOMAIN ClientRows : ClientPasses(cl, f)}
               ELSE \A cl \in list_clients(caller, f) : ClientRows[cl] = caller.company_id

\* the parts of C19 that the code does meet: clients for every caller, and
\* invoices for callers who are not superusers
C19_ScopedExceptSuperuserInvoices ==
    \A caller \in Callers :
        /\ \A f \in InvoiceFilters :
               ~caller.is_superuser =>
                   list_invoices(caller, f) =
                       {i \in DOMAIN invoices : /\ InvoicePasses(i, f)
                                                 /\ invoices[i].company_id = caller.company_id}
        /\ \A f \in ClientFilters :
               IF caller.is_superuser
               THEN list_clients(caller, f) = {cl \in DOMAIN ClientRows : ClientPasses(cl, f)}
               ELSE list_clients(caller, f) =
                       {cl \in DOMAIN ClientRows :
                           /\ ClientRows[cl] = caller.company_id
                           /\ f.is_active = <<>> \/ <<ClientActive[cl]>> = f.is_active
                           /\ f.search = <<>> \/ NameContains(cl, f.search[1])}

\* the JSON texts in use that float() accepts
NumericTexts == {"5000", "12.5", "700", "1200"}

\* C20: after any sequence of create and update requests that pass request
\* validation, candidate_data of every stored candidate has the key amount
\* with a value float() accepts.
C20_AmountKept ==
    \A c \in DOMAIN candidate_table :
        /\ "amount" \in DOMAIN candidate_table[c].candidate_data
        /\ candidate_table[c].candidate_data["amount"] \in NumericTexts

\* a candidate created with a name and an amount has since been updated: the
\* update added the key process and a new amount, and the name is still there
C20_Witness ==
    \E c \in DOMAIN candidate_table :
        /\ DOMAIN candidate_table[c].candidate_data = {"amount", "candidate_name", "process"}
        /\ candidate_table[c].candidate_data["amount"] = "12.5"
        /\ candidate_table[c].candidate_data["process"] = "Voice"

\* C21: after upsert(client, columns), get(client) gives exactly columns, in
\* that order, whatever the client's configuration was before, and after any
\* sequence of upserts each client has at most one row.
C21_UpsertReplaces ==
    /\ \A r1, r2 \in DOMAIN column_configs :
           column_configs[r1].client_id = column_configs[r2].client_id => r1 = r2
    /\ \A client_id \in DOMAIN ClientRows, columns \in ColumnLists :
           LET after == upsert_client_column_config(column_configs, client_id, columns)
               got == get_client_column_config(after, client_id)
           IN  /\ got # <<>>
               /\ got[1].client_id = client_id
               /\ got[1].columns = columns
               /\ Cardinality({r \in DOMAIN after : after[r].client_id = client_id}) = 1
               /\ \A r \in DOMAIN column_configs :
                      column_configs[r].client_id # client_id =>
                          r \in DOMAIN after /\ after[r] = column_configs[r]

\* both clients are configured, cl1 with two columns, and an upsert of a
\* single other column for cl1 leaves just that column
C21_Witness ==
    /\ Cardinality(DOMAIN column_configs) = 2
    /\ FieldNames(Configured("cl1")) = <<"candidate_name", "amount">>
    /\ LET process == CHOOSE col \in ColumnPool : col.field_name = "process"
           after == upsert_client_column_config(column_configs, "cl1", <<process>>)
       IN  get_client_column_config(after, "cl1")[1].columns = <<process>>

\* C22: get_users gives a superuser all users, a caller whom
\* get_current_company_admin accepts as an admin exactly the users of the
\* caller's company, any other user only the caller's own record; a caller
\* who is not a superuser never gets a user of another company.
C22_UsersScoped ==
    \A current_user \in DOMAIN users :
        LET me == users[current_user]
            got == get_users(users, current_user)
        IN  /\ me.is_superuser => got = DOMAIN users
            /\ (~me.is_superuser /\ get_current_company_admin(me)) =>
                   got = {u \in DOMAIN users : users[u].company_id = me.company_id}
            /\ (~me.is_superuser /\ ~get_current_company_admin(me)) => got = {current_user}
            /\ ~me.is_superuser => \A u \in got : users[u].company_id = me.company_id

\* C22 narrowed to the administrators that get_users itself recognises, those
\* with the role company_admin: this much the code meets
C22_ScopedForCompanyAdminRole ==
    \A current_user \in DOMAIN users :
        LET me == users[current_user]
            got == get_users(users, current_user)
        IN  /\ me.is_superuser => got = DOMAIN users
            /\ (~me.is_superuser /\ "company_admin" \in me.roles) =>
                   got = {u \in DOMAIN users : users[u].company_id = me.company_id}
            /\ (~me.is_superuser /\ "company_admin" \notin me.roles) => got = {current_user}
            /\ ~me.is_superuser => \A u \in got : users[u].company_id = me.company_id

\* the document a row names, <<>> when there is none
Artifact(row, fs) ==
    IF UrlFileName(row.file_url) \in DOMAIN fs THEN <<fs[UrlFileName(row.file_url)]>>
    ELSE <<>>

\* the snapshot and the candidate rows it was made from, for every list of
\* rows the candidate query may return for a client
Aggregations(client_id) ==
    { [candidates |-> candidates,
       data |-> prepare_invoice_data(ClientRows[client_id], client_id, candidates,
                                     TotalsOdd, "INV-1", 1).data[1]] :
        candidates \in UNION {CandidatesIn(ids) : ids \in {<<>>, <<1>>, <<2, 1>>, <<3>>}} }

\* C24: for every candidate and every column of the effective column list,
\* amount included, whose field_name is not a key of the candidate's
\* candidate_data, the line item's value under that field_name is "".
C24_MissingKeysEmpty ==
    \A client_id \in DOMAIN ClientRows : \A a \in Aggregations(client_id) :
        \A j \in 1 .. Len(a.candidates) : \A c \in 1 .. Len(a.data.columns) :
            LET fname == a.data.columns[c].field_name
            IN  fname \notin DOMAIN candidate_table[a.candidates[j]].candidate_data =>
                    a.data.line_items[j][fname] = ""

\* a stored candidate has an amount and no name, and a preview of two
\* candidates under the columns candidate_name and amount shows a line with
\* the empty name beside its amount
C24_Witness ==
    /\ \E c \in DOMAIN candidate_table :
           DOMAIN candidate_table[c].candidate_data = {"amount"}
    /\ \E name \in DOMAIN files :
           /\ FieldNames(files[name].columns) = <<"candidate_name", "amount">>
           /\ Len(files[name].line_items) = 2
           /\ \E j \in 1 .. 2 :
                  /\ files[name].line_items[j]["candidate_name"] = ""
                  /\ files[name].line_items[j]["amount"] = "12.5"

\* C25: in every snapshot the i-th line item has serial_no i, and no column
\* of the effective column list has a serial-number synonym, in any letter
\* case, as field_name; so no configured column overwrites serial_no.
C25_SerialNumbers ==
    \A client_id \in DOMAIN ClientRows : \A data \in Snapshots(client_id) :
        /\ \A j \in 1 .. Len(data.line_items) : data.line_items[j]["serial_no"] = j
        /\ \A c \in 1 .. Len(data.columns) : data.columns[c].field_name \notin SerialNames

\* the client's configuration is serial_no then process; a preview of two
\* candidates shows the single column process and the serial numbers 1 and 2
C25_Witness ==
    /\ FieldNames(Configured("cl1")) = <<"serial_no", "process">>
    /\ \E name \in DOMAIN files :
           /\ files[name] \in Snapshots("cl1")
           /\ FieldNames(files[name].columns) = <<"process">>
           /\ Len(files[name].line_items) = 2
           /\ \A j \in 1 .. 2 : files[name].line_items[j]["serial_no"] = j

\* a Result keeps the artifact of every persisted invoice of a company other
\* than company_id
ForeignArtifactsKept(r, company_id) ==
    \A j \in DOMAIN invoices :
        invoices[j].company_id # company_id =>
            Artifact(invoices[j], r.files) = Artifact(invoices[j], files)

\* C29 (as claimed): a generate, an update or a delete performed on an invoice
\* of one company neither overwrites nor removes the artifact that a persisted
\* invoice of another company references, also when both invoices carry the
\* same invoice_number.
C29_ForeignArtifactKept ==
    /\ \A p \in ServiceRequests, n \in InvoiceNumbers, status \in RequestStatuses :
           \A candidates \in CandidatesIn(p.candidate_ids), id \in NewIds :
               \A r \in Generated(p, n, status, candidates, id) :
                   ForeignArtifactsKept(r, ClientRows[p.client_id])
    /\ \A caller \in Callers :
        /\ \A p \in GenerateRequests, n \in InvoiceNumbers :
               \A candidates \in CandidatesIn(p.candidate_ids) :
                   ClientFound(caller, p.client_id) =>
                       ForeignArtifactsKept(
                           create_invoice(caller, p.client_id, p.candidate_ids,
                                          p.manual_totals, n, p.invoice_date, candidates),
                           RequestCompany(caller, p.client_id))
        /\ \A id \in DOMAIN invoices :
               /\ ForeignArtifactsKept(delete_draft(caller, id), invoices[id].company_id)
               /\ \A u \in UpdateRequests :
                      \A candidates \in UpdateCandidates(id, u.candidate_ids) :
                          ForeignArtifactsKept(
                              update_draft_invoice(caller, id, u.candidate_ids,
                                  u.manual_totals, u.invoice_date, u.invoice_number,
                                  candidates),
                              invoices[id].company_id)

\* the invoices of a client and a company
InvoicesOf(client_id, company_id) ==
    {i \in DOMAIN invoices : invoices[i].client_id = client_id
                             /\ invoices[i].company_id = company_id}

\* row i comes after row j in (invoice_date, id)
After(i, j) ==
    \/ invoices[i].invoice_date > invoices[j].invoice_date
    \/ invoices[i].invoice_date = invoices[j].invoice_date /\ i > j

\* C30 (as claimed): get_latest_invoice_data_by_client_id returns nothing when
\* the client has no invoice in the company; otherwise it takes the invoice of
\* that client and company with the greatest (invoice_date, id) and returns its
\* stored snapshot as it is, whatever the live tables hold now; the data is
\* rebuilt from the live tables only when the invoice has no snapshot.
C30_LatestSnapshot ==
    \A client_id \in LatestClients, company_id \in CompanyRows :
        IF InvoicesOf(client_id, company_id) = {}
        THEN get_latest_invoice_data_by_client_id(invoices, client_id, company_id, <<>>)
                 = [out |-> "OK", data |-> <<>>]
        ELSE \E top \in InvoicesOf(client_id, company_id) :
                /\ \A j \in InvoicesOf(client_id, company_id) \ {top} : After(top, j)
                /\ \A candidates \in CandidatesIn(StrUuids(invoices[top].candidate_ids)) :
                       LET r == get_latest_invoice_data_by_client_id(invoices, client_id,
                                    company_id, candidates)
                       IN  IF StoredSnapshot(invoices[top]) # <<>>
                           THEN r = [out |-> "OK",
                                     data |-> StoredSnapshot(invoices[top])]
                           ELSE r = prepare_invoice_data(company_id, client_id, candidates,
                                        StoredTotals(invoices[top]),
                                        invoices[top].invoice_number,
                                        invoices[top].invoice_date)

====
